---- MODULE Spec2Model ----
(***************************************************************************)
(* Timekeeper: the live study map's presence subsystem.                    *)
(*                                                                         *)
(*   - the demonstration account service (seeded generator, IST window),   *)
(*   - the study session manager (presence merge, heartbeat, rate limit),  *)
(*   - the avatar URL cache,                                               *)
(*   - the hosted database functions of supabase/schema.sql.               *)
(*                                                                         *)
(* Time is in whole seconds since the Unix epoch (Date.now() / 1000).      *)
(* Coordinates are in micro-degrees (degrees * 10^6, floored).             *)
(* A 32-bit word is the pair <<high 16 bits, low 16 bits>>.                *)
(***************************************************************************)
EXTENDS Integers, Sequences, FiniteSets, TLC

(***************************************************************************)
(* 32-bit word arithmetic (Math.imul, ^, |, >>>, += on int32 values).      *)
(***************************************************************************)

B16 == 65536

RECURSIVE Pow2(_)
Pow2(k) == IF k = 0 THEN 1 ELSE 2 * Pow2(k - 1)

\* bitwise xor / or of two 4-bit values, by binary digits
RECURSIVE XorBits(_, _, _)
XorBits(a, b, n) ==
  IF n = 0 THEN 0
  ELSE (((a % 2) + (b % 2)) % 2) + 2 * XorBits(a \div 2, b \div 2, n - 1)

RECURSIVE OrBits(_, _, _)
OrBits(a, b, n) ==
  IF n = 0 THEN 0
  ELSE (IF a % 2 = 1 \/ b % 2 = 1 THEN 1 ELSE 0) + 2 * OrBits(a \div 2, b \div 2, n - 1)

XorNib == [a \in 0..15 |-> [b \in 0..15 |-> XorBits(a, b, 4)]]

Xor16(a, b) ==
    XorNib[a % 16][b % 16]
  + 16 * XorNib[(a \div 16) % 16][(b \div 16) % 16]
  + 256 * XorNib[(a \div 256) % 16][(b \div 256) % 16]
  + 4096 * XorNib[a \div 4096][b \div 4096]

W(hi, lo) == <<hi, lo>>

\* ToUint32 of a non-negative integer below 2^31
ToWord(n) == <<(n \div B16) % B16, n % B16>>

WXor(x, y) == <<Xor16(x[1], y[1]), Xor16(x[2], y[2])>>

\* x | k for a constant k below 2^16
WOrSmall(x, k) == <<x[1], OrBits(x[2], k, 16)>>

\* x >>> k, 0 < k < 16
WShr(x, k) ==
  <<x[1] \div Pow2(k), (x[2] \div Pow2(k)) + (x[1] % Pow2(k)) * Pow2(16 - k)>>

WAdd(x, y) ==
  LET lo == x[2] + y[2]
  IN  <<(x[1] + y[1] + lo \div B16) % B16, lo % B16>>

\* the 32-bit product of two 16-bit values, as a word
Mul16(a, b) ==
  LET a1 == a \div 256  a0 == a % 256
      b1 == b \div 256  b0 == b % 256
      p  == (a1 * b0 + a0 * b1) * 256 + a0 * b0
  IN  <<(a1 * b1 + p \div B16) % B16, p % B16>>

\* Math.imul: the low 32 bits of the product
WMul(x, y) ==
  LET ll == Mul16(x[2], y[2])
      hl == Mul16(x[1], y[2])
      lh == Mul16(x[2], y[1])
  IN  <<(ll[1] + hl[2] + lh[2]) % B16, ll[2]>>

\* Math.floor((u / 4294967296) * n) for a word u and 0 < n < 2^15
FloorMul(u, n) == (u[1] * n + (u[2] * n) \div B16) \div B16

(***************************************************************************)
(* SeededRandom (Mulberry32).  The generator's state is the seed word.     *)
(***************************************************************************)

MULBERRY_INC == <<27947, 31221>>       \* 0x6D2B79F5

\* the seed after one call of next()
RngStep(seed) == WAdd(seed, MULBERRY_INC)

\* Each intermediate value is bound once, as the element of a singleton
\* set, so that it is computed once however often it is read.

\* the 32-bit numerator of the value next() returns, seed already stepped
RngOut(s) ==
  CHOOSE out \in
    { WXor(t2, WShr(t2, 14)) :
        t2 \in { WXor(t1, WAdd(t1, WMul(WXor(t1, WShr(t1, 7)), WOrSmall(t1, 61)))) :
                   t1 \in { WMul(WXor(s, WShr(s, 15)), WOrSmall(s, 1)) } } } : TRUE

\* next(): <<new seed, numerator of the result over 2^32>>
RngNext(seed) ==
  CHOOSE r \in { <<s, RngOut(s)>> : s \in { RngStep(seed) } } : TRUE

\* the results of n successive next() calls
RECURSIVE RngTake(_, _)
RngTake(seed, n) ==
  IF n = 0 THEN <<>>
  ELSE CHOOSE out \in { <<r[2]>> \o RngTake(r[1], n - 1) : r \in { RngNext(seed) } } : TRUE


(***************************************************************************)
(* Demonstration accounts: configuration and tables.                       *)
(***************************************************************************)

IST_OFFSET_SECONDS == 19800            \* IST_OFFSET_HOURS (5.5) * 60 * 60

ACTIVE_START_HOUR_IST == 6

ACTIVE_END_HOUR_IST == 2

UPDATE_INTERVAL_S == 30

SESSION_CHANGE_INTERVALS == <<30, 45, 60, 90, 120, 150, 180, 210, 240>>

MIN_ACCOUNTS == 5

MAX_ACCOUNTS == 15

DEMONSTRATION_EXAMS == <<
  [slug |-> "jee-main", name |-> "JEE Main", subjects |-> <<"Physics", "Chemistry", "Mathematics">>],
  [slug |-> "jee-advanced", name |-> "JEE Advanced", subjects |-> <<"Physics", "Chemistry", "Mathematics">>],
  [slug |-> "neet-ug", name |-> "NEET UG", subjects |-> <<"Physics", "Chemistry", "Biology">>],
  [slug |-> "gate", name |-> "GATE", subjects |-> <<"Engineering Mathematics", "General Aptitude", "Core Subject">>],
  [slug |-> "upsc-cse", name |-> "UPSC CSE", subjects |-> <<"General Studies", "CSAT", "Essay">>],
  [slug |-> "cat", name |-> "CAT", subjects |-> <<"VARC", "DILR", "QA">>],
  [slug |-> "ssc-cgl", name |-> "SSC CGL", subjects |-> <<"General Intelligence", "Quantitative Aptitude", "English">>],
  [slug |-> "bank-po", name |-> "Bank PO", subjects |-> <<"Reasoning", "Quantitative Aptitude", "English">>],
  [slug |-> "nda", name |-> "NDA", subjects |-> <<"Mathematics", "General Ability", "English">>],
  [slug |-> "clat", name |-> "CLAT", subjects |-> <<"Legal Reasoning", "English", "Current Affairs">>]
>>

DEMONSTRATION_CITIES == <<
  [name |-> "Mumbai", state |-> "Maharashtra", lat |-> 19076000, lng |-> 72877700],
  [name |-> "Delhi", state |-> "Delhi", lat |-> 28613900, lng |-> 77209000],
  [name |-> "Bangalore", state |-> "Karnataka", lat |-> 12971600, lng |-> 77594600],
  [name |-> "Hyderabad", state |-> "Telangana", lat |-> 17385000, lng |-> 78486700],
  [name |-> "Chennai", state |-> "Tamil Nadu", lat |-> 13082700, lng |-> 80270700],
  [name |-> "Kolkata", state |-> "West Bengal", lat |-> 22572600, lng |-> 88363900],
  [name |-> "Ahmedabad", state |-> "Gujarat", lat |-> 23022500, lng |-> 72571400],
  [name |-> "Pune", state |-> "Maharashtra", lat |-> 18520400, lng |-> 73856700],
  [name |-> "Jaipur", state |-> "Rajasthan", lat |-> 26912400, lng |-> 75787300],
  [name |-> "Lucknow", state |-> "Uttar Pradesh", lat |-> 26846700, lng |-> 80946200],
  [name |-> "Kanpur", state |-> "Uttar Pradesh", lat |-> 26449900, lng |-> 80331900],
  [name |-> "Nagpur", state |-> "Maharashtra", lat |-> 21145800, lng |-> 79088200],
  [name |-> "Indore", state |-> "Madhya Pradesh", lat |-> 22719600, lng |-> 75857700],
  [name |-> "Bhopal", state |-> "Madhya Pradesh", lat |-> 23259900, lng |-> 77412600],
  [name |-> "Patna", state |-> "Bihar", lat |-> 25594100, lng |-> 85137600],
  [name |-> "Kota", state |-> "Rajasthan", lat |-> 25213800, lng |-> 75864800],
  [name |-> "Chandigarh", state |-> "Chandigarh", lat |-> 30733300, lng |-> 76779400],
  [name |-> "Coimbatore", state |-> "Tamil Nadu", lat |-> 11016800, lng |-> 76955800],
  [name |-> "Thiruvananthapuram", state |-> "Kerala", lat |-> 8524100, lng |-> 76936600],
  [name |-> "Visakhapatnam", state |-> "Andhra Pradesh", lat |-> 17686800, lng |-> 83218500],
  [name |-> "Bhubaneswar", state |-> "Odisha", lat |-> 20296100, lng |-> 85824500],
  [name |-> "Guwahati", state |-> "Assam", lat |-> 26144500, lng |-> 91736200],
  [name |-> "Ranchi", state |-> "Jharkhand", lat |-> 23344100, lng |-> 85309600],
  [name |-> "Raipur", state |-> "Chhattisgarh", lat |-> 21251400, lng |-> 81629600],
  [name |-> "Srinagar", state |-> "Jammu & Kashmir", lat |-> 34083700, lng |-> 74797300],
  [name |-> "Dehradun", state |-> "Uttarakhand", lat |-> 30316500, lng |-> 78032200],
  [name |-> "Varanasi", state |-> "Uttar Pradesh", lat |-> 25317600, lng |-> 82973900],
  [name |-> "Allahabad", state |-> "Uttar Pradesh", lat |-> 25435800, lng |-> 81846300],
  [name |-> "Amritsar", state |-> "Punjab", lat |-> 31634000, lng |-> 74872300],
  [name |-> "Mysore", state |-> "Karnataka", lat |-> 12295800, lng |-> 76639400]
>>

(***************************************************************************)
(* Date: a Date is its time value in seconds; its local fields are read    *)
(* under the client's getTimezoneOffset() (minutes, UTC minus local).      *)
(***************************************************************************)

LocalSeconds(v, off) == v - off * 60

GetHours(v, off) == (LocalSeconds(v, off) % 86400) \div 3600

GetMinutes(v, off) == (LocalSeconds(v, off) % 3600) \div 60

\* the proleptic Gregorian date of a day number (days since 1970-01-01)
CivilFromDays(days) ==
  LET z   == days + 719468
      era == z \div 146097
      doe == z - era * 146097
      yoe == (doe - doe \div 1460 + doe \div 36524 - doe \div 146096) \div 365
      doy == doe - (365 * yoe + yoe \div 4 - yoe \div 100)
      mp  == (5 * doy + 2) \div 153
      d   == doy - (153 * mp + 2) \div 5 + 1
      m   == IF mp < 10 THEN mp + 3 ELSE mp - 9
      y   == yoe + era * 400 + (IF m <= 2 THEN 1 ELSE 0)
  IN  [year |-> y, month |-> m - 1, day |-> d]

LocalDate(v, off) == CivilFromDays(LocalSeconds(v, off) \div 86400)

\* setHours(h, m, 0, 0) on a copy of v
SetHours(v, off, h, m) ==
  (LocalSeconds(v, off) \div 86400) * 86400 + h * 3600 + m * 60 + off * 60

(***************************************************************************)
(* Time utilities of the demonstration service, at instant t on a client   *)
(* whose getTimezoneOffset() is off.                                       *)
(***************************************************************************)

GetCurrentISTDate(t, off) == t + off * 60 + IST_OFFSET_SECONDS

GetCurrentISTHour(t, off) == GetHours(GetCurrentISTDate(t, off), off)

\* mutant: the window's end hour taken as still active
IsWithinActiveHours_EndInclusive(t, off) ==
  LET istHour == GetCurrentISTHour(t, off)
  IN  istHour >= ACTIVE_START_HOUR_IST \/ istHour <= ACTIVE_END_HOUR_IST

IsWithinActiveHours(t, off) ==
  LET istHour == GetCurrentISTHour(t, off)
  IN  istHour >= ACTIVE_START_HOUR_IST \/ istHour < ACTIVE_END_HOUR_IST

\* mutant: the hour leaks into the day's seed
GetDailySeed_WithHour(t, off) ==
  LET d == LocalDate(GetCurrentISTDate(t, off), off)
  IN  d.year * 10000 + d.month * 100 + d.day + GetCurrentISTHour(t, off)

GetDailySeed(t, off) ==
  LET d == LocalDate(GetCurrentISTDate(t, off), off)
  IN  d.year * 10000 + d.month * 100 + d.day

TotalMinutes(t, off) ==
  LET ist == GetCurrentISTDate(t, off)
  IN  GetHours(ist, off) * 60 + GetMinutes(ist, off)

\* the slot seed as the word the generator reduces it to
GetSlotSeed(t, off, accountIndex, intervalMinutes) ==
  LET slot == TotalMinutes(t, off) \div intervalMinutes
  IN  WAdd(WMul(ToWord(GetDailySeed(t, off)), ToWord(1000)),
           ToWord(accountIndex * 100 + slot))

(***************************************************************************)
(* SeededRandom helpers.                                                   *)
(***************************************************************************)

\* nextInt(min, max) for the value word u
NextInt(u, min, max) == FloorMul(u, max - min + 1) + min

\* shuffle(array): Fisher-Yates from index i (0-based) down to 1
Swap(a, i, j) == [a EXCEPT ![i + 1] = a[j + 1], ![j + 1] = a[i + 1]]

RECURSIVE ShuffleFrom(_, _, _)
ShuffleFrom(arr, seed, i) ==
  IF i <= 0 THEN arr
  ELSE CHOOSE out \in
         { ShuffleFrom(Swap(a, k, FloorMul(r[2], k + 1)), r[1], k - 1) :
             a \in { arr }, r \in { RngNext(seed) }, k \in { i } } : TRUE

Shuffle(arr, seed) == ShuffleFrom(arr, seed, Len(arr) - 1)

\* (next() - 0.5) * 0.08 degrees, in micro-degrees
JitterE6(u) == (u[1] * 1250 + (u[2] * 1250) \div B16) \div 1024 - 40000

(***************************************************************************)
(* generateDeterministicSessions                                           *)
(***************************************************************************)

\* the session of account i; u holds the slot generator's four results
\* (exam, subject, latitude jitter, longitude jitter)
DemoSessionFrom(t, off, dailySeed, shuffledCities, i, intervalMinutes, u) ==
  LET city == shuffledCities[(i % Len(shuffledCities)) + 1]
      exam == DEMONSTRATION_EXAMS[FloorMul(u[1], Len(DEMONSTRATION_EXAMS)) + 1]
      subject == exam.subjects[FloorMul(u[2], Len(exam.subjects)) + 1]
      ist == GetCurrentISTDate(t, off)
      slotStart == (TotalMinutes(t, off) \div intervalMinutes) * intervalMinutes
  IN  [id |-> <<"demo", dailySeed, i>>,
       exam_slug |-> exam.slug,
       exam_name |-> exam.name,
       subject |-> subject,
       latitude |-> city.lat + JitterE6(u[3]),
       longitude |-> city.lng + JitterE6(u[4]),
       city |-> city.name,
       state |-> city.state,
       avatar_seed |-> <<"demo-avatar", dailySeed, i>>,
       started_at |-> SetHours(ist, off, slotStart \div 60, slotStart % 60),
       is_demonstration |-> TRUE]

DemoSession(t, off, dailySeed, shuffledCities, i) ==
  CHOOSE session \in
    { DemoSessionFrom(t, off, dailySeed, shuffledCities, i, intervalMinutes, u) :
        intervalMinutes \in
          { SESSION_CHANGE_INTERVALS[(i % Len(SESSION_CHANGE_INTERVALS)) + 1] },
        u \in { RngTake(GetSlotSeed(t, off, i,
                   SESSION_CHANGE_INTERVALS[(i % Len(SESSION_CHANGE_INTERVALS)) + 1]), 4) }
    } : TRUE

\* the sessions of the day whose generator gave r0 on its first call
SessionsOfDay(t, off, dailySeed, r0) ==
  CHOOSE sessions \in
    { [k \in 1..accountCount |-> DemoSession(t, off, dailySeed, shuffledCities, k - 1)] :
        accountCount \in { NextInt(r0[2], MIN_ACCOUNTS, MAX_ACCOUNTS) },
        shuffledCities \in { Shuffle(DEMONSTRATION_CITIES, r0[1]) } } : TRUE

GenerateDeterministicSessions(t, off) ==
  IF ~IsWithinActiveHours(t, off) THEN <<>>
  ELSE CHOOSE sessions \in
         { SessionsOfDay(t, off, dailySeed, RngNext(ToWord(dailySeed))) :
             dailySeed \in { GetDailySeed(t, off) } } : TRUE

(***************************************************************************)
(* Model bounds and input sets.                                            *)
(***************************************************************************)

\* number of clock advances in a behaviour
MaxTicks == 15

\* a behaviour starts on one of MaxDays + 1 consecutive days
MaxDays == 2

\* the clock advances by whole periods of the update timer (30 minutes)
TickSeconds == 60 * UPDATE_INTERVAL_S

\* 2025-11-03T18:00:00Z, 23:30 IST
BaseClock == 20395 * 86400 + 18 * 3600

StartInstants == { BaseClock + d * 86400 : d \in 0..MaxDays }

Instants == { b + k * TickSeconds : b \in StartInstants, k \in 0..MaxTicks }

Clients == {"c1", "c2"}

\* getTimezoneOffset() of a client: IST, UTC, New York (EST)
TzOffsets == {-330, 0, 300}

NoTime == -1

\* the client whose session manager is modelled
Me == "c1"

\* a null unsubscribe function / no channel
NoHandle == 0

VARIABLES
  clock,      \* the current instant
  tz,         \* tz[c]: getTimezoneOffset() of client c
  svc,        \* svc[c]: the DemonstrationAccountService instance of client c
  \* module state of the session manager of client Me
  configured,                \* isSupabaseConfigured()
  currentStatus,
  heartbeatTimer,            \* NoTime, or the instant the interval fires next
  unsubscribeRealtime,       \* NoHandle, or the channel the function removes
  unsubscribeDemonstration,  \* NoHandle, or the listener the function removes
  currentLocation,
  sessionListeners,
  lastRealSessions,
  lastDemonstrationSessions,
  \* state of the other client modules
  rateLimitStore,
  avatarUrlCache,            \* the keys of the Map, in insertion order
  signedIn,                  \* the auth client holds a session
  \* the hosted backend
  study_sessions,            \* the rows of public.study_sessions
  backendSessions,           \* what get_active_study_sessions answers now
  channels,                  \* the realtime channels that are subscribed
  \* asynchronous calls in flight
  initCalls,                 \* initializeSessionManager
  refetches,                 \* handlers of realtime change events
  fetchCalls,                \* fetchActiveSessions
  calls,                     \* session calls and their backend requests
  \* what listeners and callers have seen
  presence,                  \* the presence listener: deliveries and last list
  fetchReturn,               \* how the last fetchActiveSessions call settled
  observed,                  \* history of the study session and its limiter
  \* the exam data module (exam-data.ts)
  metadataData,              \* exam-metadata.json: <<id, metadata>> entries
  sessionsData,              \* exam-sessions.json: the "sessions" array
  examDataCache,
  metadataLookup,
  sessionsLookup,
  examReturn,                \* what the last call of the exam data module returned
  dateNow,                   \* new Date().getTime() of the countdown, in ms
  countdown                  \* what the last countdown calculation returned

timeVars == <<clock, tz>>

mergeVars ==
  <<lastRealSessions, lastDemonstrationSessions, avatarUrlCache, presence>>

demoVars == <<svc, unsubscribeDemonstration>>

realtimeVars == <<unsubscribeRealtime, channels, refetches, backendSessions>>

connVars == <<configured, currentStatus, currentLocation, sessionListeners>>

fetchVars == <<initCalls, fetchCalls, fetchReturn>>

sessionState ==
  <<heartbeatTimer, rateLimitStore, signedIn, study_sessions, calls>>

sessionVars == <<sessionState, observed>>

examVars ==
  <<metadataData, sessionsData, examDataCache, metadataLookup, sessionsLookup,
    examReturn, dateNow, countdown>>

vars ==
  <<timeVars, mergeVars, demoVars, realtimeVars, connVars, fetchVars,
    sessionVars, examVars>>

(***************************************************************************)
(* DemonstrationAccountService.  generatedAt is the instant of the last    *)
(* generateDeterministicSessions call whose result the cache holds.        *)
(***************************************************************************)

NewService ==
  [isRunning |-> FALSE, updateInterval |-> FALSE, cachedSessions |-> <<>>,
   sessionListeners |-> {}, generatedAt |-> NoTime]

\* updateSessions(): the cache is replaced only when the new list differs
\* generateDeterministicSessions is a function of the instant and the offset
\* alone: it is tabulated once over the instants of the model.
GeneratedSessions ==
  [t \in Instants |-> [off \in TzOffsets |-> GenerateDeterministicSessions(t, off)]]

SessionsChanged_Always(newSessions, cachedSessions) == TRUE

\* JSON.stringify(newSessions) !== JSON.stringify(this.cachedSessions): both
\* lists come from generateDeterministicSessions, with the same keys in the
\* same order and string and finite number values, so the strings differ
\* exactly when the lists do
SessionsChanged(newSessions, cachedSessions) == newSessions # cachedSessions

UpdateSessions(s, t, off) ==
  CHOOSE updated \in
    { [s EXCEPT !.cachedSessions =
                   IF SessionsChanged(newSessions, @) THEN newSessions ELSE @,
                !.generatedAt = t] :
        newSessions \in { GeneratedSessions[t][off] } } : TRUE

\* start()
ServiceStart(s, t, off) ==
  IF s.isRunning THEN s
  ELSE [UpdateSessions(s, t, off) EXCEPT !.isRunning = TRUE, !.updateInterval = TRUE]

\* stop()
ServiceStop(s) ==
  IF ~s.isRunning THEN s
  ELSE [s EXCEPT !.isRunning = FALSE, !.updateInterval = FALSE,
                 !.cachedSessions = <<>>, !.generatedAt = NoTime]

(***************************************************************************)
(* Avatar URL cache.  The Map is modelled by its keys in insertion order:  *)
(* the URL stored under a key is a function of the key.                    *)
(***************************************************************************)

MAX_CACHE_SIZE == 500

\* cleanupCache removes the first 100 keys
CLEANUP_BATCH == 100

DEFAULT_STYLE == "lorelei"

DEFAULT_SIZE == 128

CacheKey(seed, style, size) == <<seed, style, size>>

AvatarUrl(seed, style, size) ==
  <<"https://api.dicebear.com/9.x", style, "svg?seed", seed, "size", size>>

CleanupCache_DropNewest(cache) ==
  IF Len(cache) > MAX_CACHE_SIZE
  THEN SubSeq(cache, 1, Len(cache) - CLEANUP_BATCH)
  ELSE cache

CleanupCache(cache) ==
  IF Len(cache) > MAX_CACHE_SIZE
  THEN SubSeq(cache, CLEANUP_BATCH + 1, Len(cache))
  ELSE cache

CacheHas(cache, key) == \E i \in DOMAIN cache : cache[i] = key

\* getAvatarUrl: the cache after the call, and the URL it returns
CachePut(cache, key) ==
  IF CacheHas(cache, key) THEN cache ELSE CleanupCache(Append(cache, key))

GetAvatarUrl(seed, style, size) == AvatarUrl(seed, style, size)

\* the cache after getAvatarUrl(seeds[i]), getAvatarUrl(seeds[i+1]), ...
RECURSIVE CacheAfterFrom(_, _, _)
CacheAfterFrom(cache, seeds, i) ==
  IF i > Len(seeds) THEN cache
  ELSE CHOOSE out \in
         { CacheAfterFrom(c, seeds, i + 1) :
             c \in { CachePut(cache,
                              CacheKey(seeds[i], DEFAULT_STYLE, DEFAULT_SIZE)) } } :
         TRUE

CacheAfter(cache, seeds) == CacheAfterFrom(cache, seeds, 1)

(***************************************************************************)
(* Presence lists of the session manager.                                  *)
(***************************************************************************)

\* the presence listener counts its deliveries modulo DeliveryModulus
DeliveryModulus == 2

ToPresence(s) ==
  [id |-> s.id, examSlug |-> s.exam_slug, examName |-> s.exam_name,
   subject |-> s.subject, latitude |-> s.latitude, longitude |-> s.longitude,
   city |-> s.city, state |-> s.state,
   avatarUrl |-> GetAvatarUrl(s.avatar_seed, DEFAULT_STYLE, DEFAULT_SIZE),
   startedAt |-> s.started_at]

ToPresences(sessions) == [i \in DOMAIN sessions |-> ToPresence(sessions[i])]

AvatarSeeds(sessions) == [i \in DOMAIN sessions |-> sessions[i].avatar_seed]

AllPresences(dbSessions, demoSessions) ==
  ToPresences(dbSessions) \o ToPresences(demoSessions)

\* notifySessionListeners(dbSessions) with lastDemonstrationSessions =
\* demoSessions, run `times` times in a row with the same arguments
NotifySessionListeners(dbSessions, demoSessions, times) ==
  /\ lastRealSessions' = dbSessions
  /\ lastDemonstrationSessions' = demoSessions
  /\ avatarUrlCache' =
       CacheAfter(avatarUrlCache,
                  AvatarSeeds(dbSessions) \o AvatarSeeds(demoSessions))
  /\ presence' =
       IF sessionListeners = {} THEN presence
       ELSE [count |-> (presence.count + times) % DeliveryModulus,
             last |-> AllPresences(dbSessions, demoSessions)]

\* notifyListeners() of the service: each subscribed closure of the manager
\* runs handleDemonstrationSessionUpdate(sessions)
NotifyListeners(listeners, sessions) ==
  IF listeners = {} THEN UNCHANGED mergeVars
  ELSE NotifySessionListeners(lastRealSessions, sessions, Cardinality(listeners))

(***************************************************************************)
(* The state of the modules when they are loaded.                          *)
(***************************************************************************)

\* null / undefined coordinate
NoCoord == 0 - 1000 * 1000000

\* currentLocation = null
NoLocation == [latitude |-> NoCoord, longitude |-> NoCoord, city |-> "", state |-> ""]

RateLimitKeys == {"session_start"}

NoEntry == [count |-> 0, resetAt |-> NoTime]

\* concurrent initializeSessionManager calls
MaxInitCalls == 2

InitCallIds == 1..MaxInitCalls

\* a getActiveStudySessions request just sent.  order and newerRows record
\* the order of the manager's requests: "latest" for the request sent last,
\* "older" for one sent before it, "overtaken" once the latest has completed
\* ahead of it, with newerRows what the latest returned
NewFetch ==
  [stage |-> "sent", outcome |-> "none", rows |-> <<>>, order |-> "latest",
   newerRows |-> <<>>]

IdleCall == [pc |-> "idle", fetch |-> NewFetch, result |-> FALSE]

NoReturn == [settled |-> "none", value |-> <<>>, outcome |-> "none", rows |-> <<>>]

NothingObserved ==
  [windowEnd |-> NoTime, windowCalls |-> 0, windowUpserts |-> 0,
   returned |-> "none", sessionId |-> 0, ended |-> {}, missed |-> FALSE,
   endResolved |-> FALSE, cleanedUp |-> FALSE]

ManagerLoaded ==
  /\ currentStatus = "disconnected"
  /\ heartbeatTimer = NoTime
  /\ unsubscribeRealtime = NoHandle
  /\ unsubscribeDemonstration = NoHandle
  /\ currentLocation = NoLocation
  /\ sessionListeners = {}
  /\ lastRealSessions = <<>>
  /\ lastDemonstrationSessions = <<>>
  /\ rateLimitStore = [k \in RateLimitKeys |-> NoEntry]
  /\ avatarUrlCache = <<>>
  /\ signedIn = FALSE
  /\ initCalls = [i \in InitCallIds |-> IdleCall]
  /\ refetches = <<>>
  /\ fetchCalls = <<>>
  /\ calls = <<>>
  /\ presence = [count |-> 0, last |-> <<>>]
  /\ fetchReturn = NoReturn
  /\ observed = NothingObserved

BackendEmpty ==
  /\ study_sessions = <<>>
  /\ channels = {}

\* a Map that has not been built (null), and a built Map: its <<key, value>>
\* entries in insertion order
NullMap == [built |-> FALSE, entries |-> <<>>]

NoExamReturn == [fn |-> "none", arg |-> "", limit |-> 0, value |-> <<>>]

NoCountdown == [fn |-> "none", at |-> 0, sessions |-> <<>>, nextSession |-> <<>>,
                timeRemaining |-> <<>>]

\* exam-data.ts when it is loaded: examDataCache, metadataLookup and
\* sessionsLookup are null
ExamCachesNull ==
  /\ examDataCache = [built |-> FALSE, exams |-> <<>>]
  /\ metadataLookup = NullMap
  /\ sessionsLookup = NullMap
  /\ examReturn = NoExamReturn
  /\ countdown = NoCountdown

\* a page that does not use the exam data module
ExamDataUnused ==
  /\ metadataData = <<>>
  /\ sessionsData = <<>>
  /\ dateNow = 0
  /\ ExamCachesNull

(***************************************************************************)
(* The demonstration service on its own: two clients, each with its own    *)
(* timezone, start and stop the service and let its timer run.             *)
(***************************************************************************)

DemoInit ==
  /\ clock \in StartInstants
  /\ tz \in [Clients -> TzOffsets]
  /\ svc = [c \in Clients |-> NewService]
  /\ configured = FALSE
  /\ ManagerLoaded
  /\ BackendEmpty
  /\ ExamDataUnused
  /\ backendSessions = <<>>

\* initializeDemonstrationAccounts()
DemoStart(c) ==
  /\ svc' = [svc EXCEPT ![c] = ServiceStart(svc[c], clock, tz[c])]
  /\ IF ~svc[c].isRunning
        /\ SessionsChanged(GeneratedSessions[clock][tz[c]], svc[c].cachedSessions)
     THEN NotifyListeners(svc[c].sessionListeners, GeneratedSessions[clock][tz[c]])
     ELSE UNCHANGED mergeVars
  /\ UNCHANGED <<timeVars, examVars, unsubscribeDemonstration, realtimeVars, connVars,
                 fetchVars, sessionVars>>

\* stopDemonstrationAccounts()
DemoStop(c) ==
  /\ svc' = [svc EXCEPT ![c] = ServiceStop(svc[c])]
  /\ IF svc[c].isRunning
     THEN NotifyListeners(svc[c].sessionListeners, <<>>)
     ELSE UNCHANGED mergeVars
  /\ UNCHANGED <<timeVars, examVars, unsubscribeDemonstration, realtimeVars, connVars,
                 fetchVars, sessionVars>>

\* the setInterval callback of start()
DemoTimerFire(c) ==
  /\ svc[c].updateInterval
  /\ svc' = [svc EXCEPT ![c] = UpdateSessions(svc[c], clock, tz[c])]
  /\ IF SessionsChanged(GeneratedSessions[clock][tz[c]], svc[c].cachedSessions)
     THEN NotifyListeners(svc[c].sessionListeners, svc'[c].cachedSessions)
     ELSE UNCHANGED mergeVars
  /\ UNCHANGED <<timeVars, examVars, unsubscribeDemonstration, realtimeVars, connVars,
                 fetchVars, sessionVars>>

DemoAdvance ==
  /\ clock + TickSeconds \in Instants
  /\ clock' = clock + TickSeconds
  /\ UNCHANGED <<tz, examVars, mergeVars, demoVars, realtimeVars, connVars, fetchVars,
                 sessionVars>>

DemoNext ==
  \/ \E c \in Clients : DemoStart(c)
  \/ \E c \in Clients : DemoStop(c)
  \/ \E c \in Clients : DemoTimerFire(c)
  \/ DemoAdvance

SpecDemo == DemoInit /\ [][DemoNext]_vars

(***************************************************************************)
(* Hosted backend: the SQL functions of schema.sql over the rows of        *)
(* public.study_sessions.  A row keeps the columns the functions test or   *)
(* write; coordinates are in micro-degrees.                                *)
(***************************************************************************)

NoUser == "none"

MyUser == "u1"

\* auth.uid() of a request of client Me
AuthUid == IF signedIn THEN MyUser ELSE NoUser

\* get_active_study_sessions: last_heartbeat > NOW() - INTERVAL '2 minutes'
ACTIVE_INTERVAL_S == 120

\* cleanup_stale_sessions: last_heartbeat < NOW() - INTERVAL '5 minutes'
STALE_INTERVAL_S == 300

ActiveRows(table, uid) ==
  { i \in DOMAIN table : table[i].user_id = uid /\ table[i].is_active }

\* SELECT id ... LIMIT 1: any active row of the user, 0 when there is none
FirstActive(table, uid) ==
  IF ActiveRows(table, uid) = {} THEN {0} ELSE ActiveRows(table, uid)

Coalesce(p, old) == IF p = NoCoord THEN old ELSE p

\* upsert_study_session, with i the row the SELECT found (0: none)
UpsertStudySessionSql(table, uid, lat, lng, now, i) ==
  IF uid = NoUser THEN [table |-> table, result |-> 0]
  ELSE IF i # 0
  THEN [table |-> [table EXCEPT ![i].latitude = Coalesce(lat, @),
                                ![i].longitude = Coalesce(lng, @),
                                ![i].last_heartbeat = now],
        result |-> table[i].id]
  ELSE [table |-> Append(table,
                    [id |-> Len(table) + 1, user_id |-> uid, is_active |-> TRUE,
                     last_heartbeat |-> now, latitude |-> lat,
                     longitude |-> lng]),
        result |-> Len(table) + 1]

HeartbeatSessionSql_NoTouch(table, uid, now) ==
  [table |-> table,
   result |-> IF uid # NoUser /\ ActiveRows(table, uid) # {} THEN 1 ELSE 0]

\* heartbeat_session: RETURN FOUND
HeartbeatSessionSql(table, uid, now) ==
  [table |-> [i \in DOMAIN table |->
                IF i \in ActiveRows(table, uid) /\ uid # NoUser
                THEN [table[i] EXCEPT !.last_heartbeat = now] ELSE table[i]],
   result |-> IF uid # NoUser /\ ActiveRows(table, uid) # {} THEN 1 ELSE 0]

\* end_study_session
EndStudySessionSql(table, uid) ==
  [table |-> [i \in DOMAIN table |->
                IF i \in ActiveRows(table, uid) /\ uid # NoUser
                THEN [table[i] EXCEPT !.is_active = FALSE] ELSE table[i]],
   result |-> IF uid # NoUser THEN 1 ELSE 0]

\* cleanup_stale_sessions
CleanupStaleSessionsSql(table, now) ==
  [i \in DOMAIN table |->
     IF table[i].is_active /\ table[i].last_heartbeat < now - STALE_INTERVAL_S
     THEN [table[i] EXCEPT !.is_active = FALSE] ELSE table[i]]

\* get_active_study_sessions: the ids of the rows it returns
GetActiveStudySessionsSql(table, now) ==
  { table[i].id : i \in { j \in DOMAIN table :
       /\ table[j].is_active
       /\ table[j].last_heartbeat > now - ACTIVE_INTERVAL_S } }

(***************************************************************************)
(* Client-side validation and rate limiting (api-security).                *)
(***************************************************************************)

NoCoords == [latitude |-> NoCoord, longitude |-> NoCoord]

\* INDIA_BOUNDS in micro-degrees
INDIA_BOUNDS ==
  [minLat |-> 5000000, maxLat |-> 38000000,
   minLng |-> 67000000, maxLng |-> 98000000]

ValidateIndianCoordinates(lat, lng) ==
  IF lat = NoCoord \/ lng = NoCoord THEN NoCoords
  ELSE IF \/ lat < INDIA_BOUNDS.minLat \/ lat > INDIA_BOUNDS.maxLat
          \/ lng < INDIA_BOUNDS.minLng \/ lng > INDIA_BOUNDS.maxLng
  THEN NoCoords
  ELSE [latitude |-> lat, longitude |-> lng]

CheckRateLimit_OverMax(store, key, maxRequests, windowS, now) ==
  LET current == IF store[key] # NoEntry /\ store[key].resetAt <= now
                 THEN NoEntry ELSE store[key]
  IN IF current = NoEntry
     THEN [store |-> [store EXCEPT ![key] = [count |-> 1, resetAt |-> now + windowS]],
           allowed |-> TRUE]
     ELSE IF current.count > maxRequests
     THEN [store |-> store, allowed |-> FALSE]
     ELSE [store |-> [store EXCEPT ![key].count = @ + 1], allowed |-> TRUE]

\* checkRateLimit: the store after the call and whether the call is allowed
CheckRateLimit(store, key, maxRequests, windowS, now) ==
  LET current == IF store[key] # NoEntry /\ store[key].resetAt <= now
                 THEN NoEntry ELSE store[key]
  IN IF current = NoEntry
     THEN [store |-> [store EXCEPT ![key] = [count |-> 1, resetAt |-> now + windowS]],
           allowed |-> TRUE]
     ELSE IF current.count >= maxRequests
     THEN [store |-> store, allowed |-> FALSE]
     ELSE [store |-> [store EXCEPT ![key].count = @ + 1], allowed |-> TRUE]

(***************************************************************************)
(* Study session of client Me: startStudySession, updateStudyExam,         *)
(* endStudySession and the heartbeat timer, with the backend requests they *)
(* make.  Time advances in steps of SessionTick seconds; a request that is *)
(* in flight is answered before the clock advances (round trips are        *)
(* shorter than one step), and a timer fires at the instant it is due.     *)
(***************************************************************************)

HEARTBEAT_INTERVAL_S == 25

\* withRateLimit('session_start', ..., 5, 60000, false)
SESSION_START_MAX == 5

SESSION_START_WINDOW_S == 60

\* the clock advances by whole heartbeat periods
SessionTick == HEARTBEAT_INTERVAL_S

\* clock advances in a behaviour of the study session
MaxSessionTicks == 13

\* startStudySession calls in one 60-second window
MaxStartCalls == 2

\* the same two bounds where the rate limiter is exercised
MaxLimiterTicks == 4

MaxLimiterCalls == 7

\* session calls in flight at once
MaxInFlight == 1

\* a session is ended while study_sessions has fewer than MaxRows rows
MaxRows == 2

\* the fallback of getLocationFromIP
FallbackLocation ==
  [latitude |-> 28613900, longitude |-> 77209000,
   city |-> "New Delhi", state |-> "Delhi"]

\* results of getLocationFromIP: the New Delhi fallback, and New York
Locations ==
  { FallbackLocation,
    [latitude |-> 40712800, longitude |-> 0 - 74006000,
     city |-> "New York", state |-> "New York"] }

NewCall(fn, pc) ==
  [fn |-> fn, pc |-> pc, latitude |-> NoCoord, longitude |-> NoCoord, reply |-> 0]

Remove(seq, k) == SubSeq(seq, 1, k - 1) \o SubSeq(seq, k + 1, Len(seq))

\* the request is sent when the client exists, and answered null otherwise
Sent(call) == [call EXCEPT !.pc = IF configured THEN "rpc" ELSE "reply"]

\* latitude: validatedCoords?.latitude ?? currentLocation?.latitude
UpsertParams(loc) ==
  LET validatedCoords == ValidateIndianCoordinates(loc.latitude, loc.longitude)
  IN [latitude |-> IF validatedCoords # NoCoords
                   THEN validatedCoords.latitude ELSE loc.latitude,
      longitude |-> IF validatedCoords # NoCoords
                    THEN validatedCoords.longitude ELSE loc.longitude]

\* the call reaches upsertStudySession(params)
UpsertStudySession(call, loc) ==
  Sent([call EXCEPT !.latitude = UpsertParams(loc).latitude,
                    !.longitude = UpsertParams(loc).longitude])

\* p_latitude: params.latitude || null
OrNull(x) == IF x = 0 THEN NoCoord ELSE x

presenceVars == <<mergeVars, demoVars, realtimeVars, fetchVars>>

SessionInit ==
  /\ clock = BaseClock
  /\ tz = [c \in Clients |-> 0 - 330]
  /\ svc = [c \in Clients |-> NewService]
  /\ configured \in BOOLEAN
  /\ ManagerLoaded
  /\ BackendEmpty
  /\ ExamDataUnused
  /\ backendSessions = <<>>

\* startStudySession up to its first await
StartStudySession(maxCalls, maxInFlight) ==
  /\ Len(calls) < maxInFlight
  /\ \/ observed.windowCalls < maxCalls
     \/ clock >= observed.windowEnd
  /\ IF ~configured
     THEN /\ observed' = [observed EXCEPT !.returned = "false",
                                          !.endResolved = FALSE]
          /\ UNCHANGED <<rateLimitStore, calls>>
     ELSE LET r == CheckRateLimit(rateLimitStore, "session_start",
                                  SESSION_START_MAX, SESSION_START_WINDOW_S, clock)
              fresh == observed.windowEnd = NoTime \/ clock >= observed.windowEnd
          IN /\ rateLimitStore' = r.store
             /\ calls' = IF r.allowed
                         THEN Append(calls, NewCall("start", "auth")) ELSE calls
             /\ observed' =
                  [observed EXCEPT
                     !.returned = IF r.allowed THEN "none" ELSE "false",
                     !.endResolved = FALSE,
                     !.windowEnd = IF fresh THEN clock + 60 ELSE @,
                     !.windowCalls = IF fresh THEN 1 ELSE @ + 1,
                     !.windowUpserts = IF fresh THEN 0 ELSE @]
  /\ UNCHANGED <<timeVars, examVars, presenceVars, connVars, heartbeatTimer, signedIn,
                 study_sessions>>

\* getCurrentUserId / ensureAnonymousSession answer
StartAuth(k) ==
  /\ calls[k].fn = "start" /\ calls[k].pc = "auth"
  /\ \E ok \in BOOLEAN :
       /\ signedIn' = (signedIn \/ ok)
       /\ IF ~(signedIn \/ ok)
          THEN /\ calls' = Remove(calls, k)
               /\ observed' = [observed EXCEPT !.returned = "false"]
          ELSE IF currentLocation = NoLocation
          THEN calls' = [calls EXCEPT ![k].pc = "location"] /\ UNCHANGED observed
          ELSE /\ calls' = [calls EXCEPT ![k] = UpsertStudySession(@, currentLocation)]
               /\ observed' = [observed EXCEPT !.windowUpserts = @ + 1]
  /\ UNCHANGED <<timeVars, examVars, presenceVars, connVars, heartbeatTimer,
                 rateLimitStore, study_sessions>>

\* getLocationFromIP answers
StartLocation(k) ==
  /\ calls[k].fn = "start" /\ calls[k].pc = "location"
  /\ \E loc \in Locations :
       /\ currentLocation' = loc
       /\ calls' = [calls EXCEPT ![k] = UpsertStudySession(@, loc)]
  /\ observed' = [observed EXCEPT !.windowUpserts = @ + 1]
  /\ UNCHANGED <<timeVars, examVars, presenceVars, configured, currentStatus,
                 sessionListeners, heartbeatTimer, rateLimitStore, signedIn,
                 study_sessions>>

\* the backend answers the request of call k, or the request fails
BackendRpc(k) ==
  /\ calls[k].pc = "rpc"
  /\ \E ok \in BOOLEAN, i \in FirstActive(study_sessions, AuthUid) :
       LET fn == calls[k].fn
           r == IF ~ok THEN [table |-> study_sessions, result |-> 0]
                ELSE IF fn \in {"start", "update"}
                THEN UpsertStudySessionSql(study_sessions, AuthUid,
                                           OrNull(calls[k].latitude),
                                           OrNull(calls[k].longitude), clock, i)
                ELSE IF fn = "heartbeat"
                THEN HeartbeatSessionSql(study_sessions, AuthUid, clock)
                ELSE EndStudySessionSql(study_sessions, AuthUid)
       IN /\ study_sessions' = r.table
          /\ calls' = [calls EXCEPT ![k].pc = "reply", ![k].reply = r.result]
          /\ observed' =
               [observed EXCEPT
                  !.missed = @ \/ (fn = "heartbeat" /\ r.result = 0),
                  !.ended = IF ok /\ fn \in {"end", "cleanup"}
                            THEN @ \cup { study_sessions[j].id :
                                            j \in ActiveRows(study_sessions, AuthUid) }
                            ELSE @]
  /\ UNCHANGED <<timeVars, examVars, presenceVars, connVars, heartbeatTimer,
                 rateLimitStore, signedIn>>

\* startStudySession after upsertStudySession: startHeartbeat()
StartReply(k) ==
  /\ calls[k].fn = "start" /\ calls[k].pc = "reply"
  /\ calls' = Remove(calls, k)
  /\ IF calls[k].reply = 0
     THEN /\ observed' = [observed EXCEPT !.returned = "false"]
          /\ UNCHANGED <<heartbeatTimer, currentStatus>>
     ELSE /\ heartbeatTimer' = clock + HEARTBEAT_INTERVAL_S
          /\ currentStatus' = "connected"
          /\ observed' = [observed EXCEPT !.returned = "true",
                                          !.sessionId = calls[k].reply,
                                          !.missed = FALSE]
  /\ UNCHANGED <<timeVars, examVars, presenceVars, configured, currentLocation,
                 sessionListeners, rateLimitStore, signedIn, study_sessions>>

\* updateStudyExam
UpdateStudyExam(maxInFlight) ==
  /\ Len(calls) < maxInFlight
  /\ calls' = Append(calls, UpsertStudySession(NewCall("update", "rpc"),
                                               currentLocation))
  /\ UNCHANGED <<timeVars, examVars, presenceVars, connVars, heartbeatTimer,
                 rateLimitStore, signedIn, study_sessions, observed>>

\* endStudySession up to its await: stopHeartbeat()
EndStudySession(maxInFlight) ==
  /\ Len(calls) < maxInFlight
  /\ Len(study_sessions) < MaxRows
  /\ heartbeatTimer' = NoTime
  /\ calls' = Append(calls, Sent(NewCall("end", "rpc")))
  /\ UNCHANGED <<timeVars, examVars, presenceVars, connVars, rateLimitStore, signedIn,
                 study_sessions, observed>>

\* endStudySession after endCurrentStudySession
EndReply(k) ==
  /\ calls[k].fn = "end" /\ calls[k].pc = "reply"
  /\ calls' = Remove(calls, k)
  /\ currentStatus' = "disconnected"
  /\ observed' = [observed EXCEPT !.endResolved = TRUE]
  /\ UNCHANGED <<timeVars, examVars, presenceVars, configured, currentLocation,
                 sessionListeners, heartbeatTimer, rateLimitStore, signedIn,
                 study_sessions>>

\* the answers nothing waits for: updateStudyExam, heartbeat, cleanup
OtherReply(k) ==
  /\ calls[k].fn \in {"update", "heartbeat", "cleanup"} /\ calls[k].pc = "reply"
  /\ calls' = Remove(calls, k)
  /\ UNCHANGED <<timeVars, examVars, presenceVars, connVars, heartbeatTimer,
                 rateLimitStore, signedIn, study_sessions, observed>>

\* the setInterval callback of startHeartbeat
HeartbeatFire(maxInFlight) ==
  /\ heartbeatTimer = clock
  /\ Len(calls) < maxInFlight
  /\ heartbeatTimer' = clock + HEARTBEAT_INTERVAL_S
  /\ calls' = Append(calls, Sent(NewCall("heartbeat", "rpc")))
  /\ UNCHANGED <<timeVars, examVars, presenceVars, connVars, rateLimitStore, signedIn,
                 study_sessions, observed>>

\* cleanup_stale_sessions, run by the backend
CleanupStaleSessions ==
  /\ study_sessions' = CleanupStaleSessionsSql(study_sessions, clock)
  /\ UNCHANGED <<timeVars, examVars, presenceVars, connVars, heartbeatTimer,
                 rateLimitStore, signedIn, calls, observed>>

SessionAdvance(maxTicks) ==
  /\ calls = <<>>
  /\ heartbeatTimer = NoTime \/ heartbeatTimer > clock
  /\ clock + SessionTick <= BaseClock + maxTicks * SessionTick
  /\ clock' = clock + SessionTick
  /\ UNCHANGED <<tz, examVars, presenceVars, connVars, sessionVars>>

SessionNext ==
  \/ StartStudySession(MaxStartCalls, MaxInFlight)
  \/ \E k \in DOMAIN calls : StartAuth(k)
  \/ \E k \in DOMAIN calls : StartLocation(k)
  \/ \E k \in DOMAIN calls : BackendRpc(k)
  \/ \E k \in DOMAIN calls : StartReply(k)
  \/ UpdateStudyExam(MaxInFlight)
  \/ EndStudySession(MaxInFlight)
  \/ \E k \in DOMAIN calls : EndReply(k)
  \/ \E k \in DOMAIN calls : OtherReply(k)
  \/ HeartbeatFire(MaxInFlight)
  \/ CleanupStaleSessions
  \/ SessionAdvance(MaxSessionTicks)

SpecSession == SessionInit /\ [][SessionNext]_vars

\* the same calls with more of them in a window and a shorter run
LimiterNext ==
  \/ StartStudySession(MaxLimiterCalls, MaxInFlight)
  \/ \E k \in DOMAIN calls : StartAuth(k)
  \/ \E k \in DOMAIN calls : StartLocation(k)
  \/ \E k \in DOMAIN calls : BackendRpc(k)
  \/ \E k \in DOMAIN calls : StartReply(k)
  \/ EndStudySession(MaxInFlight)
  \/ \E k \in DOMAIN calls : EndReply(k)
  \/ \E k \in DOMAIN calls : OtherReply(k)
  \/ HeartbeatFire(MaxInFlight)
  \/ SessionAdvance(MaxLimiterTicks)

SpecLimiter == SessionInit /\ [][LimiterNext]_vars

(***************************************************************************)
(* Calls that overlap: up to MaxConcurrent calls of one user in flight.    *)
(* upsert_study_session is two statements, its SELECT and then its UPDATE  *)
(* or INSERT, and under READ COMMITTED the statements of two calls         *)
(* interleave.                                                             *)
(***************************************************************************)

MaxConcurrent == 2

MaxRaceTicks == 1

MaxRaceCalls == 2

\* upsert_study_session: SELECT id INTO v_session_id ... LIMIT 1, or the
\* request fails
UpsertSelect(k) ==
  /\ calls[k].fn \in {"start", "update"} /\ calls[k].pc = "rpc"
  /\ \E ok \in BOOLEAN, i \in FirstActive(study_sessions, AuthUid) :
       calls' = IF ok
                THEN [calls EXCEPT ![k].pc = "selected", ![k].reply = i]
                ELSE [calls EXCEPT ![k].pc = "reply", ![k].reply = 0]
  /\ UNCHANGED <<timeVars, examVars, presenceVars, connVars, heartbeatTimer,
                 rateLimitStore, signedIn, study_sessions, observed>>

\* upsert_study_session: the UPDATE of the row found, or the INSERT
UpsertWrite(k) ==
  /\ calls[k].pc = "selected"
  /\ LET r == UpsertStudySessionSql(study_sessions, AuthUid,
                                    OrNull(calls[k].latitude),
                                    OrNull(calls[k].longitude), clock,
                                    calls[k].reply)
     IN /\ study_sessions' = r.table
        /\ calls' = [calls EXCEPT ![k].pc = "reply", ![k].reply = r.result]
  /\ UNCHANGED <<timeVars, examVars, presenceVars, connVars, heartbeatTimer,
                 rateLimitStore, signedIn, observed>>

\* heartbeat_session and end_study_session are one statement each
SingleStatementRpc(k) ==
  /\ calls[k].fn \in {"heartbeat", "end"}
  /\ BackendRpc(k)

RaceNext ==
  \/ StartStudySession(MaxRaceCalls, MaxConcurrent)
  \/ \E k \in DOMAIN calls : StartAuth(k)
  \/ \E k \in DOMAIN calls : StartLocation(k)
  \/ \E k \in DOMAIN calls : UpsertSelect(k)
  \/ \E k \in DOMAIN calls : UpsertWrite(k)
  \/ \E k \in DOMAIN calls : SingleStatementRpc(k)
  \/ \E k \in DOMAIN calls : StartReply(k)
  \/ UpdateStudyExam(MaxConcurrent)
  \/ EndStudySession(MaxConcurrent)
  \/ \E k \in DOMAIN calls : EndReply(k)
  \/ \E k \in DOMAIN calls : OtherReply(k)
  \/ HeartbeatFire(MaxConcurrent)
  \/ CleanupStaleSessions
  \/ SessionAdvance(MaxRaceTicks)

SpecRace == SessionInit /\ [][RaceNext]_vars

(***************************************************************************)
(* Session manager of client Me: initializeSessionManager, the realtime    *)
(* subscription, fetchActiveSessions and cleanup.  Here the backend is     *)
(* seen through what get_active_study_sessions answers: any list of        *)
(* RealLists, which changes when other users start and end sessions.  The  *)
(* client takes the id of a row as an opaque string.                       *)
(***************************************************************************)

\* clock advances in a behaviour of the session manager
MaxPresenceTicks == 1

\* realtime channels subscribed at once
MaxChannels == 1

\* handlers of realtime events in flight at once
MaxRefetches == 1

\* fetchActiveSessions calls in flight at once
MaxFetchCalls == 1

RealSession(id, n) ==
  [id |-> id, exam_slug |-> "jee-main", exam_name |-> "JEE Main",
   subject |-> "Physics", latitude |-> 19076000 + n, longitude |-> 72877700,
   city |-> "Mumbai", state |-> "Maharashtra",
   avatar_seed |-> <<"seed", 0, n>>, started_at |-> BaseClock - n]

\* the id of the first demonstration session of the first day of the model
FirstDemoId == <<"demo", GetDailySeed(BaseClock, 0 - 330), 0>>

\* answers of get_active_study_sessions: one row, and two rows of which the
\* second carries the id of a demonstration session
RealLists ==
  { <<RealSession(<<"uuid", 0, 1>>, 1)>>,
    <<RealSession(<<"uuid", 0, 1>>, 1), RealSession(FirstDemoId, 2)>> }

\* the backend answers a fetch with its rows ("ok") or with an error, or the
\* request throws
Answered(fetch, outcome) ==
  [fetch EXCEPT !.stage = "answered", !.outcome = outcome,
                !.rows = IF outcome = "ok" THEN backendSessions ELSE <<>>]

\* getActiveStudySessions: the rows, or [] when the request failed; what
\* the request throws is caught there
GetActiveStudySessions(fetch) ==
  IF fetch.outcome = "ok" THEN fetch.rows ELSE <<>>

\* getDemonstrationSessions()
GetDemonstrationSessions == svc[Me].cachedSessions

Max(S) == CHOOSE x \in S : \A y \in S : y <= x

\* a handle that no subscribed listener or channel has
NewHandle(S) == IF S = {} THEN 1 ELSE Max(S) + 1

\* the requests in flight when another request is sent
Older(fetch) == [fetch EXCEPT !.order = "older", !.newerRows = <<>>]

\* the requests in flight when the request `done` completes with `rows`
Overtaken(fetch, done, rows) ==
  IF done.order = "latest"
  THEN [fetch EXCEPT !.order = "overtaken", !.newerRows = rows]
  ELSE fetch

\* setConnectionStatus(status); no connection listener is registered
SetConnectionStatus(status) == currentStatus' = status

\* initializeDemonstrationService()
InitializeDemonstrationService ==
  IF unsubscribeDemonstration # NoHandle
  THEN UNCHANGED <<demoVars, mergeVars>>
  ELSE LET started == ServiceStart(svc[Me], clock, tz[Me])
           told == IF ~svc[Me].isRunning
                      /\ SessionsChanged(started.cachedSessions, svc[Me].cachedSessions)
                   THEN Cardinality(svc[Me].sessionListeners) ELSE 0
           handle == NewHandle(svc[Me].sessionListeners)
       IN /\ svc' = [svc EXCEPT ![Me] =
                       [started EXCEPT !.sessionListeners = @ \cup {handle}]]
          /\ unsubscribeDemonstration' = handle
          /\ NotifySessionListeners(lastRealSessions, started.cachedSessions,
                                    told + 1)

PresenceInit ==
  /\ clock = BaseClock
  /\ tz = [c \in Clients |-> 0 - 330]
  /\ svc = [c \in Clients |-> NewService]
  /\ configured \in BOOLEAN
  /\ ManagerLoaded
  /\ BackendEmpty
  /\ ExamDataUnused
  /\ backendSessions \in RealLists

\* onPresenceUpdate(callback)
OnPresenceUpdate ==
  /\ sessionListeners = {}
  /\ sessionListeners' = {"ui"}
  /\ UNCHANGED <<timeVars, examVars, presenceVars, configured, currentStatus,
                 currentLocation, sessionVars>>

\* the function onPresenceUpdate returned
OffPresenceUpdate ==
  /\ sessionListeners # {}
  /\ sessionListeners' = {}
  /\ UNCHANGED <<timeVars, examVars, presenceVars, configured, currentStatus,
                 currentLocation, sessionVars>>

\* initializeSessionManager up to its first await
InitBegin(i) ==
  /\ initCalls[i].pc = "idle"
  /\ Cardinality(channels) < MaxChannels
  /\ IF ~configured
     THEN /\ SetConnectionStatus("error")
          /\ InitializeDemonstrationService
          /\ initCalls' = [initCalls EXCEPT ![i].pc = "returned", ![i].result = FALSE]
     ELSE /\ SetConnectionStatus("connecting")
          /\ initCalls' = [initCalls EXCEPT ![i].pc = "auth"]
          /\ UNCHANGED <<demoVars, mergeVars>>
  /\ observed' = [observed EXCEPT !.cleanedUp = FALSE]
  /\ UNCHANGED <<timeVars, examVars, realtimeVars, configured, currentLocation,
                 sessionListeners, fetchCalls, fetchReturn, sessionState>>

\* ensureAnonymousSession answers
InitAuth(i) ==
  /\ initCalls[i].pc = "auth"
  /\ \E ok \in BOOLEAN :
       /\ signedIn' = (signedIn \/ ok)
       /\ IF ~(signedIn \/ ok)
          THEN /\ SetConnectionStatus("error")
               /\ InitializeDemonstrationService
               /\ initCalls' = [initCalls EXCEPT ![i].pc = "returned",
                                                 ![i].result = FALSE]
          ELSE /\ initCalls' = [initCalls EXCEPT ![i].pc = "location"]
               /\ UNCHANGED <<currentStatus, demoVars, mergeVars>>
  /\ UNCHANGED <<timeVars, examVars, realtimeVars, configured, currentLocation,
                 sessionListeners, fetchCalls, fetchReturn, heartbeatTimer,
                 rateLimitStore, study_sessions, calls, observed>>

\* getLocationFromIP answers; subscribeToStudySessions either throws, which
\* the catch block handles, or opens a channel; then the initial load is sent
InitLocation(i, locations) ==
  /\ initCalls[i].pc = "location"
  /\ \E loc \in locations, throws \in BOOLEAN :
       /\ currentLocation' = loc
       /\ IF throws
          THEN /\ SetConnectionStatus("error")
               /\ initCalls' = [initCalls EXCEPT ![i].pc = "returned",
                                                 ![i].result = FALSE]
               /\ UNCHANGED <<unsubscribeRealtime, channels, refetches>>
          ELSE /\ unsubscribeRealtime' = NewHandle(channels)
               /\ channels' = channels \cup {NewHandle(channels)}
               /\ initCalls' =
                    [j \in InitCallIds |->
                       IF j = i
                       THEN [initCalls[j] EXCEPT !.pc = "fetch", !.fetch = NewFetch]
                       ELSE IF initCalls[j].pc = "fetch"
                       THEN [initCalls[j] EXCEPT !.fetch = Older(@)]
                       ELSE initCalls[j]]
               /\ refetches' = [k \in DOMAIN refetches |-> Older(refetches[k])]
               /\ UNCHANGED currentStatus
  /\ InitializeDemonstrationService
  /\ UNCHANGED <<timeVars, examVars, backendSessions, configured,
                 sessionListeners, fetchCalls, fetchReturn, sessionVars>>

\* the backend answers the initial load
InitFetchAnswer(i) ==
  /\ initCalls[i].pc = "fetch" /\ initCalls[i].fetch.stage = "sent"
  /\ \E outcome \in {"ok", "error"} :
       initCalls' = [initCalls EXCEPT ![i].fetch = Answered(@, outcome)]
  /\ UNCHANGED <<timeVars, examVars, mergeVars, demoVars, realtimeVars, connVars,
                 fetchCalls, fetchReturn, sessionVars>>

\* initializeSessionManager after the initial load
InitFetchDone(i) ==
  /\ initCalls[i].pc = "fetch" /\ initCalls[i].fetch.stage = "answered"
  /\ NotifySessionListeners(GetActiveStudySessions(initCalls[i].fetch),
                            lastDemonstrationSessions, 1)
  /\ SetConnectionStatus("connected")
  /\ LET done == initCalls[i].fetch
         rows == GetActiveStudySessions(done)
     IN /\ initCalls' =
             [j \in InitCallIds |->
                IF j = i
                THEN [initCalls[j] EXCEPT !.pc = "returned", !.result = TRUE]
                ELSE IF initCalls[j].pc = "fetch"
                THEN [initCalls[j] EXCEPT !.fetch = Overtaken(@, done, rows)]
                ELSE initCalls[j]]
        /\ refetches' =
             [k \in DOMAIN refetches |-> Overtaken(refetches[k], done, rows)]
  /\ UNCHANGED <<timeVars, examVars, demoVars, unsubscribeRealtime, channels,
                 backendSessions, configured, currentLocation,
                 sessionListeners, fetchCalls, fetchReturn, sessionVars>>

\* the caller drops the settled promise
InitForget(i) ==
  /\ initCalls[i].pc = "returned"
  /\ initCalls' = [initCalls EXCEPT ![i] = IdleCall]
  /\ UNCHANGED <<timeVars, examVars, mergeVars, demoVars, realtimeVars, connVars,
                 fetchCalls, fetchReturn, sessionVars>>

\* a session of another user starts or ends: every subscribed channel runs
\* its handler, which refetches the active sessions
BackendChange ==
  /\ Len(refetches) + Cardinality(channels) <= MaxRefetches
  /\ \E rows \in RealLists \ {backendSessions} : backendSessions' = rows
  /\ LET sent == Cardinality(channels)
     IN IF sent = 0 THEN UNCHANGED <<refetches, initCalls>>
        ELSE /\ refetches' =
                  [k \in DOMAIN refetches |-> Older(refetches[k])]
                    \o [n \in 1..sent |->
                          IF n = sent THEN NewFetch ELSE Older(NewFetch)]
             /\ initCalls' =
                  [j \in InitCallIds |->
                     IF initCalls[j].pc = "fetch"
                     THEN [initCalls[j] EXCEPT !.fetch = Older(@)]
                     ELSE initCalls[j]]
  /\ UNCHANGED <<timeVars, examVars, mergeVars, demoVars, unsubscribeRealtime, channels,
                 connVars, fetchCalls, fetchReturn, sessionVars>>

RefetchAnswer(k) ==
  /\ refetches[k].stage = "sent"
  /\ \E outcome \in {"ok", "error"} :
       refetches' = [refetches EXCEPT ![k] = Answered(@, outcome)]
  /\ UNCHANGED <<timeVars, examVars, mergeVars, demoVars, unsubscribeRealtime, channels,
                 backendSessions, connVars, fetchVars, sessionVars>>

\* the handler calls the callback given to subscribeToStudySessions
RefetchDone(k) ==
  /\ refetches[k].stage = "answered"
  /\ NotifySessionListeners(GetActiveStudySessions(refetches[k]),
                            lastDemonstrationSessions, 1)
  /\ LET done == refetches[k]
         rows == GetActiveStudySessions(done)
         rest == Remove(refetches, k)
     IN /\ refetches' = [n \in DOMAIN rest |-> Overtaken(rest[n], done, rows)]
        /\ initCalls' =
             [j \in InitCallIds |->
                IF initCalls[j].pc = "fetch"
                THEN [initCalls[j] EXCEPT !.fetch = Overtaken(@, done, rows)]
                ELSE initCalls[j]]
  /\ UNCHANGED <<timeVars, examVars, demoVars, unsubscribeRealtime, channels,
                 backendSessions, connVars, fetchCalls, fetchReturn, sessionVars>>

\* fetchActiveSessions up to its await
FetchActiveSessions ==
  /\ Len(fetchCalls) < MaxFetchCalls
  /\ fetchCalls' = Append(fetchCalls,
                          IF configured THEN NewFetch
                          ELSE [NewFetch EXCEPT !.stage = "answered",
                                                !.outcome = "error"])
  /\ UNCHANGED <<timeVars, examVars, mergeVars, demoVars, realtimeVars, connVars,
                 initCalls, fetchReturn, sessionVars>>

FetchAnswer(k) ==
  /\ fetchCalls[k].stage = "sent"
  /\ \E outcome \in {"ok", "error", "threw"} :
       fetchCalls' = [fetchCalls EXCEPT ![k] = Answered(@, outcome)]
  /\ UNCHANGED <<timeVars, examVars, mergeVars, demoVars, realtimeVars, connVars,
                 initCalls, fetchReturn, sessionVars>>

FetchActiveSessions_NoDemo(fetch) ==
  ToPresences(GetActiveStudySessions(fetch))

\* the value fetchActiveSessions resolves to
FetchActiveSessionsValue(fetch) ==
  AllPresences(GetActiveStudySessions(fetch), GetDemonstrationSessions)

\* fetchActiveSessions after getActiveStudySessions, which does not throw
FetchDone(k) ==
  /\ fetchCalls[k].stage = "answered"
  /\ fetchReturn' = [settled |-> "resolved",
                     value |-> FetchActiveSessionsValue(fetchCalls[k]),
                     outcome |-> fetchCalls[k].outcome,
                     rows |-> fetchCalls[k].rows]
  /\ avatarUrlCache' =
       CacheAfter(avatarUrlCache,
                  AvatarSeeds(GetActiveStudySessions(fetchCalls[k]))
                    \o AvatarSeeds(GetDemonstrationSessions))
  /\ fetchCalls' = Remove(fetchCalls, k)
  /\ UNCHANGED <<timeVars, examVars, lastRealSessions, lastDemonstrationSessions,
                 presence, demoVars, realtimeVars, connVars, initCalls,
                 sessionVars>>

\* cleanup()
Cleanup ==
  /\ Len(calls) < MaxInFlight
  /\ heartbeatTimer' = NoTime
  /\ unsubscribeRealtime' = NoHandle
  /\ channels' = channels \ {unsubscribeRealtime}
  /\ unsubscribeDemonstration' = NoHandle
  /\ LET remaining == svc[Me].sessionListeners \ {unsubscribeDemonstration}
     IN /\ svc' = [svc EXCEPT ![Me] =
                     ServiceStop([svc[Me] EXCEPT !.sessionListeners = remaining])]
        /\ IF svc[Me].isRunning
           THEN NotifyListeners(remaining, <<>>)
           ELSE UNCHANGED mergeVars
  /\ calls' = IF configured
              THEN Append(calls, NewCall("cleanup", "rpc")) ELSE calls
  /\ observed' = [observed EXCEPT !.cleanedUp = TRUE]
  /\ UNCHANGED <<timeVars, examVars, refetches, backendSessions, connVars, fetchVars,
                 rateLimitStore, signedIn, study_sessions>>

PresenceAdvance ==
  /\ clock + TickSeconds <= BaseClock + MaxPresenceTicks * TickSeconds
  /\ clock' = clock + TickSeconds
  /\ UNCHANGED <<tz, examVars, presenceVars, connVars, sessionVars>>

\* a presence listener that stays registered, one initialization at a
\* time, realtime events
PresenceNext ==
  \/ OnPresenceUpdate
  \/ InitBegin(1)
  \/ InitAuth(1)
  \/ InitLocation(1, {FallbackLocation})
  \/ InitFetchAnswer(1)
  \/ InitFetchDone(1)
  \/ InitForget(1)
  \/ BackendChange
  \/ \E k \in DOMAIN refetches : RefetchAnswer(k)
  \/ \E k \in DOMAIN refetches : RefetchDone(k)
  \/ Cleanup
  \/ \E k \in DOMAIN calls : BackendRpc(k)
  \/ \E k \in DOMAIN calls : OtherReply(k)
  \/ DemoTimerFire(Me)
  \/ PresenceAdvance

SpecPresence == PresenceInit /\ [][PresenceNext]_vars

\* concurrent and repeated initializations, and cleanup
InitNext ==
  \/ \E i \in InitCallIds : InitBegin(i)
  \/ \E i \in InitCallIds : InitAuth(i)
  \/ \E i \in InitCallIds : InitLocation(i, Locations)
  \/ \E i \in InitCallIds : InitFetchAnswer(i)
  \/ \E i \in InitCallIds : InitFetchDone(i)
  \/ \E i \in InitCallIds : InitForget(i)
  \/ Cleanup
  \/ \E k \in DOMAIN calls : BackendRpc(k)
  \/ \E k \in DOMAIN calls : OtherReply(k)
  \/ DemoTimerFire(Me)
  \/ PresenceAdvance

SpecInit == PresenceInit /\ [][InitNext]_vars

\* fetchActiveSessions while the service starts, updates and stops
FetchNext ==
  \/ FetchActiveSessions
  \/ \E k \in DOMAIN fetchCalls : FetchAnswer(k)
  \/ \E k \in DOMAIN fetchCalls : FetchDone(k)
  \/ BackendChange
  \/ DemoStart(Me)
  \/ DemoStop(Me)
  \/ DemoTimerFire(Me)
  \/ PresenceAdvance

SpecFetch == PresenceInit /\ [][FetchNext]_vars

(***************************************************************************)
(* The periodic update of the demonstration service on a client without a  *)
(* backend: initializeSessionManager subscribes the manager and starts the *)
(* service once, a presence listener comes and goes, and the timer runs    *)
(* over the instants of one night (23:30 to 07:00 IST).                    *)
(***************************************************************************)

UpdateInit ==
  /\ clock = BaseClock
  /\ tz = [c \in Clients |-> 0 - 330]
  /\ svc = [c \in Clients |-> NewService]
  /\ configured = FALSE
  /\ ManagerLoaded
  /\ BackendEmpty
  /\ ExamDataUnused
  /\ backendSessions = <<>>

UpdateNext ==
  \/ OnPresenceUpdate
  \/ OffPresenceUpdate
  \/ InitBegin(1)
  \/ DemoTimerFire(Me)
  \/ DemoAdvance

SpecUpdate == UpdateInit /\ [][UpdateNext]_vars

(***************************************************************************)
(* The avatar URL cache on its own: getAvatarUrl with the default style    *)
(* and size, for seeds not seen before and for cached ones, and            *)
(* clearAvatarCache.                                                       *)
(***************************************************************************)

\* seeds are numbered in the order they are first asked for
MaxSeed == 620

AvatarSeed(n) == <<"seed", 0, n>>

SeedOf(key) == key[1][3]

\* the next seed not asked for since the cache was last cleared
FreshSeed(cache) == IF cache = <<>> THEN 1 ELSE SeedOf(cache[Len(cache)]) + 1

\* the oldest and the newest cached seed
CachedSeeds(cache) ==
  IF cache = <<>> THEN {} ELSE {SeedOf(cache[1]), SeedOf(cache[Len(cache)])}

cacheFrame ==
  <<timeVars, examVars, lastRealSessions, lastDemonstrationSessions, presence, demoVars,
    realtimeVars, connVars, fetchVars, sessionVars>>

CacheInit ==
  /\ clock = BaseClock
  /\ tz = [c \in Clients |-> 0 - 330]
  /\ svc = [c \in Clients |-> NewService]
  /\ configured = FALSE
  /\ ManagerLoaded
  /\ BackendEmpty
  /\ ExamDataUnused
  /\ backendSessions = <<>>

\* getAvatarUrl(seed)
GetAvatarUrlCall ==
  /\ \E n \in {FreshSeed(avatarUrlCache)} \cup CachedSeeds(avatarUrlCache) :
       /\ n <= MaxSeed
       /\ avatarUrlCache' =
            CachePut(avatarUrlCache,
                     CacheKey(AvatarSeed(n), DEFAULT_STYLE, DEFAULT_SIZE))
  /\ UNCHANGED cacheFrame

\* clearAvatarCache()
ClearAvatarCache ==
  /\ avatarUrlCache # <<>>
  /\ avatarUrlCache' = <<>>
  /\ UNCHANGED cacheFrame

CacheNext ==
  \/ GetAvatarUrlCall
  \/ ClearAvatarCache

SpecCache == CacheInit /\ [][CacheNext]_vars

(***************************************************************************)
(* The exam data module: exam-metadata.json and exam-sessions.json are     *)
(* combined through two lookup Maps and cached.  An exam keeps the fields  *)
(* the functions below read (name, category, slug, relatedExams); a date   *)
(* "YYYY-MM-DD" is the number of its day.                                  *)
(***************************************************************************)

MS_PER_DAY == 1000 * 60 * 60 * 24

\* new Date("YYYY-MM-DD").getTime(): midnight UTC of that day, in ms
DateGetTime(day) == day * MS_PER_DAY

ExamSession(name, day) == [session |-> name, date |-> day]

ExamMetadata(name, category, slug, relatedExams) ==
  [name |-> name, category |-> category, slug |-> slug,
   relatedExams |-> relatedExams]

\* the metadata the files can hold, by id
MetadataOf ==
  [id \in {"jee-main-2026", "jee-advanced-2026", "gate-2026", "neet-2026"} |->
     CASE id = "jee-main-2026" ->
            ExamMetadata("JEE Main", "Engineering", "jee-main",
                         <<"neet", "bitsat", "neet">>)
       [] id = "jee-advanced-2026" ->
            ExamMetadata("JEE Advanced", "Engineering", "jee-advanced",
                         <<"jee-main", "gate">>)
       [] id = "gate-2026" ->
            ExamMetadata("GATE", "engineering", "gate", <<"jee-advanced">>)
       [] id = "neet-2026" ->
            ExamMetadata("NEET", "Medical", "neet", <<>>)]

ExamIds == DOMAIN MetadataOf

\* the session lists the files can hold, by id; "cuet-2026" has no metadata
SessionsOf ==
  [id \in {"jee-main-2026", "gate-2026", "neet-2026", "cuet-2026"} |->
     CASE id = "jee-main-2026" ->
            <<ExamSession("Session 1", 3), ExamSession("Session 2", 5)>>
       [] id = "gate-2026" -> <<ExamSession("Single Session", 4)>>
       [] id = "neet-2026" -> <<>>
       [] id = "cuet-2026" -> <<ExamSession("Single Session", 2)>>]

\* the sequences without repetition over S, of length at most n
RECURSIVE Arrangements(_, _)
Arrangements(S, n) ==
  IF n = 0 THEN {<<>>}
  ELSE {<<>>} \cup { <<x>> \o rest :
                       x \in S, rest \in Arrangements(S, n - 1) }

Injective(seq) == \A i, j \in DOMAIN seq : i # j => seq[i] # seq[j]

MaxExams == 3

MaxSessionEntries == 2

\* exam-metadata.json: an object, so no id occurs twice
MetadataFiles ==
  { [i \in DOMAIN ids |-> <<ids[i], MetadataOf[ids[i]]>>] :
      ids \in { a \in Arrangements(ExamIds, MaxExams) : Injective(a) } }

\* exam-sessions.json: one entry per exam
SessionsFiles ==
  { [i \in DOMAIN ids |-> [id |-> ids[i], sessions |-> SessionsOf[ids[i]]]] :
      ids \in { a \in Arrangements(DOMAIN SessionsOf, MaxSessionEntries) :
                  Injective(a) } }

MapHas(map, key) == \E i \in DOMAIN map.entries : map.entries[i][1] = key

MapGet(map, key) ==
  map.entries[CHOOSE i \in DOMAIN map.entries : map.entries[i][1] = key][2]

\* Map.set keeps the place of a key that is already there
MapSet(map, key, value) ==
  IF MapHas(map, key)
  THEN [map EXCEPT !.entries =
          [i \in DOMAIN @ |-> IF @[i][1] = key THEN <<key, value>> ELSE @[i]]]
  ELSE [map EXCEPT !.entries = Append(@, <<key, value>>)]

RECURSIVE SetAll(_, _, _)
SetAll(map, pairs, i) ==
  IF i > Len(pairs) THEN map
  ELSE SetAll(MapSet(map, pairs[i][1], pairs[i][2]), pairs, i + 1)

NewMap == [built |-> TRUE, entries |-> <<>>]

\* initializeLookups: [metadataLookup, sessionsLookup] after the call
InitializeLookups(mLookup, sLookup) ==
  IF mLookup.built /\ sLookup.built
  THEN [metadataLookup |-> mLookup, sessionsLookup |-> sLookup]
  ELSE [metadataLookup |-> SetAll(NewMap, metadataData, 1),
        sessionsLookup |->
          SetAll(NewMap,
                 [i \in DOMAIN sessionsData |->
                    <<sessionsData[i].id, sessionsData[i].sessions>>], 1)]

\* sessionsLookup.get(id) || []
SessionsOrEmpty_First(sLookup, id) ==
  IF MapHas(sLookup, id) THEN MapGet(sLookup, id)
  ELSE IF sLookup.entries = <<>> THEN <<>> ELSE sLookup.entries[1][2]

SessionsOrEmpty(sLookup, id) ==
  IF MapHas(sLookup, id) THEN MapGet(sLookup, id) ELSE <<>>

\* { id, ...metadata, sessions }
ExamData(id, metadata, sessions) ==
  [id |-> id, name |-> metadata.name, category |-> metadata.category,
   slug |-> metadata.slug, relatedExams |-> metadata.relatedExams,
   sessions |-> sessions]

\* getExamData: [cache, metadataLookup, sessionsLookup, value] after the call
GetExamData(cache, mLookup, sLookup) ==
  IF cache.built
  THEN [cache |-> cache, metadataLookup |-> mLookup,
        sessionsLookup |-> sLookup, value |-> cache.exams]
  ELSE LET l == InitializeLookups(mLookup, sLookup)
           exams ==
             [i \in DOMAIN l.metadataLookup.entries |->
                ExamData(l.metadataLookup.entries[i][1],
                         l.metadataLookup.entries[i][2],
                         SessionsOrEmpty(l.sessionsLookup,
                                         l.metadataLookup.entries[i][1]))]
       IN [cache |-> [built |-> TRUE, exams |-> exams],
           metadataLookup |-> l.metadataLookup,
           sessionsLookup |-> l.sessionsLookup, value |-> exams]

\* getExamById: the lookups after the call and the exam, or <<>> for undefined
GetExamById(mLookup, sLookup, id) ==
  LET l == InitializeLookups(mLookup, sLookup)
  IN [metadataLookup |-> l.metadataLookup, sessionsLookup |-> l.sessionsLookup,
      value |-> IF ~MapHas(l.metadataLookup, id) THEN <<>>
                ELSE <<ExamData(id, MapGet(l.metadataLookup, id),
                                SessionsOrEmpty(l.sessionsLookup, id))>>]

\* Array.prototype.find: the element of seq at the least of the indices that
\* satisfy the test (matching), as a list of at most one
FirstWhere(seq, matching) ==
  IF matching = {} THEN <<>>
  ELSE <<seq[CHOOSE i \in matching : \A j \in matching : i <= j]>>

\* getExamBySlug over the list getExamData() returned: the exam, or <<>>
\* for undefined
GetExamBySlug(exams, slug) ==
  FirstWhere(exams, {i \in DOMAIN exams : exams[i].slug = slug})

\* String.prototype.toLowerCase on the category names of the model
ToLowerCase(str) ==
  CASE str = "Engineering" -> "engineering"
    [] str = "Medical" -> "medical"
    [] OTHER -> str

\* getExamsByCategory over the list getExamData() returned
GetExamsByCategory(exams, category) ==
  SelectSeq(exams, LAMBDA exam :
              ToLowerCase(exam.category) = ToLowerCase(category))

\* Array.prototype.includes
Includes(seq, x) == \E i \in DOMAIN seq : seq[i] = x

\* Array.prototype.slice(0, n), n >= 0
Slice(seq, n) == SubSeq(seq, 1, IF n < Len(seq) THEN n ELSE Len(seq))

\* exam.relatedExams.map(slug => getExamBySlug(slug)).filter(Boolean),
\* from the i-th slug on
RECURSIVE RelatedFound(_, _, _)
RelatedFound(exams, slugs, i) ==
  IF i > Len(slugs) THEN <<>>
  ELSE GetExamBySlug(exams, slugs[i]) \o RelatedFound(exams, slugs, i + 1)

CategoryFallback_WithSelf(exams, exam, examSlug) ==
  SelectSeq(GetExamsByCategory(exams, exam.category),
            LAMBDA e : ~Includes(exam.relatedExams, e.slug))

\* the exams of the category that are not the exam itself and not named in
\* its relatedExams
CategoryFallback(exams, exam, examSlug) ==
  SelectSeq(GetExamsByCategory(exams, exam.category),
            LAMBDA e : e.slug # examSlug /\ ~Includes(exam.relatedExams, e.slug))

\* getRelatedExams(examSlug, limit) over the list getExamData() returned
GetRelatedExams(exams, examSlug, limit) ==
  LET found == GetExamBySlug(exams, examSlug)
  IN IF found = <<>> THEN <<>>
     ELSE LET exam == found[1]
              relatedExams == Slice(RelatedFound(exams, exam.relatedExams, 1), limit)
          IN IF Len(relatedExams) < limit
             THEN relatedExams
                    \o Slice(CategoryFallback(exams, exam, examSlug),
                             limit - Len(relatedExams))
             ELSE relatedExams

\* the largest limit getRelatedExams is called with
MaxLimit == 3

\* the slugs getRelatedExams is called with; no exam has the slug "bitsat"
Slugs == {"jee-main", "jee-advanced", "gate", "neet", "bitsat"}

managerFrame ==
  <<timeVars, mergeVars, demoVars, realtimeVars, connVars, fetchVars,
    sessionVars>>

ExamInit ==
  /\ clock = BaseClock
  /\ tz = [c \in Clients |-> 0 - 330]
  /\ svc = [c \in Clients |-> NewService]
  /\ configured = FALSE
  /\ ManagerLoaded
  /\ BackendEmpty
  /\ backendSessions = <<>>
  /\ metadataData \in MetadataFiles
  /\ sessionsData \in SessionsFiles
  /\ dateNow = 0
  /\ ExamCachesNull

GetExamDataCall ==
  /\ LET r == GetExamData(examDataCache, metadataLookup, sessionsLookup)
     IN /\ examDataCache' = r.cache
        /\ metadataLookup' = r.metadataLookup
        /\ sessionsLookup' = r.sessionsLookup
        /\ examReturn' = [fn |-> "getExamData", arg |-> "", limit |-> 0,
                          value |-> r.value]
  /\ UNCHANGED <<managerFrame, metadataData, sessionsData, dateNow, countdown>>

GetExamByIdCall ==
  /\ \E id \in ExamIds \cup DOMAIN SessionsOf :
       LET r == GetExamById(metadataLookup, sessionsLookup, id)
       IN /\ metadataLookup' = r.metadataLookup
          /\ sessionsLookup' = r.sessionsLookup
          /\ examReturn' = [fn |-> "getExamById", arg |-> id, limit |-> 0,
                            value |-> r.value]
  /\ UNCHANGED <<managerFrame, metadataData, sessionsData, examDataCache,
                 dateNow, countdown>>

\* getRelatedExams(examSlug, limit); each getExamBySlug and
\* getExamsByCategory in it calls getExamData(), which builds the cache once
GetRelatedExamsCall ==
  /\ \E examSlug \in Slugs, limit \in 0..MaxLimit :
       LET r == GetExamData(examDataCache, metadataLookup, sessionsLookup)
       IN /\ examDataCache' = r.cache
          /\ metadataLookup' = r.metadataLookup
          /\ sessionsLookup' = r.sessionsLookup
          /\ examReturn' = [fn |-> "getRelatedExams", arg |-> examSlug,
                            limit |-> limit,
                            value |-> GetRelatedExams(r.value, examSlug, limit)]
  /\ UNCHANGED <<managerFrame, metadataData, sessionsData, dateNow, countdown>>

\* clearCache()
ClearCache ==
  /\ examDataCache' = [built |-> FALSE, exams |-> <<>>]
  /\ metadataLookup' = NullMap
  /\ sessionsLookup' = NullMap
  /\ UNCHANGED <<managerFrame, metadataData, sessionsData, examReturn,
                 dateNow, countdown>>

ExamNext ==
  \/ GetExamDataCall
  \/ GetExamByIdCall
  \/ GetRelatedExamsCall
  \/ ClearCache

SpecExam == ExamInit /\ [][ExamNext]_vars

(***************************************************************************)
(* The countdown: calculateSingleTime and calculateTimeRemaining of        *)
(* exam-data.ts, and the two older copies of the calculation.              *)
(***************************************************************************)

Expired == [expired |-> TRUE, days |-> 0, hours |-> 0, minutes |-> 0, seconds |-> 0]

\* calculateSingleTime(targetDate, now)
CalculateSingleTime_Ceil(targetDate, now) ==
  LET target == DateGetTime(targetDate)
      distance == target - now
  IN IF distance < 0 THEN Expired
     ELSE [expired |-> FALSE,
           days |-> distance \div (1000 * 60 * 60 * 24),
           hours |-> (distance % (1000 * 60 * 60 * 24)) \div (1000 * 60 * 60),
           minutes |-> (distance % (1000 * 60 * 60)) \div (1000 * 60),
           seconds |-> ((distance % (1000 * 60)) + 999) \div 1000]

CalculateSingleTime(targetDate, now) ==
  LET target == DateGetTime(targetDate)
      distance == target - now
  IN IF distance < 0 THEN Expired
     ELSE [expired |-> FALSE,
           days |-> distance \div (1000 * 60 * 60 * 24),
           hours |-> (distance % (1000 * 60 * 60 * 24)) \div (1000 * 60 * 60),
           minutes |-> (distance % (1000 * 60 * 60)) \div (1000 * 60),
           seconds |-> (distance % (1000 * 60)) \div 1000]

\* calculateTimeRemaining(targetDate) of exams.ts, which reads the clock itself
LegacyCalculateTimeRemaining(targetDate, now) ==
  LET target == DateGetTime(targetDate)
      distance == target - now
  IN IF distance < 0 THEN Expired
     ELSE [expired |-> FALSE,
           days |-> distance \div (1000 * 60 * 60 * 24),
           hours |-> (distance % (1000 * 60 * 60 * 24)) \div (1000 * 60 * 60),
           minutes |-> (distance % (1000 * 60 * 60)) \div (1000 * 60),
           seconds |-> (distance % (1000 * 60)) \div 1000]

\* SEOOptimizer.calculateTimeRemaining(targetDate)
SeoCalculateTimeRemaining(targetDate, now) ==
  LET target == DateGetTime(targetDate)
      distance == target - now
  IN IF distance < 0 THEN Expired
     ELSE [expired |-> FALSE,
           days |-> distance \div (1000 * 60 * 60 * 24),
           hours |-> (distance % (1000 * 60 * 60 * 24)) \div (1000 * 60 * 60),
           minutes |-> (distance % (1000 * 60 * 60)) \div (1000 * 60),
           seconds |-> (distance % (1000 * 60)) \div 1000]

\* calculateTimeRemaining(exam): nextSession (or <<>> for null) and its time
CalculateTimeRemaining(sessions, now) ==
  LET allSessions ==
        [i \in DOMAIN sessions |->
           [session |-> sessions[i],
            timeRemaining |-> CalculateSingleTime(sessions[i].date, now)]]
      Upcoming(s) == ~s.timeRemaining.expired
      nextSession ==
        FirstWhere(allSessions,
                   {i \in DOMAIN allSessions : Upcoming(allSessions[i])})
  IN [nextSession |-> IF nextSession = <<>> THEN <<>>
                      ELSE <<nextSession[1].session>>,
      timeRemaining |-> IF nextSession = <<>> THEN Expired
                        ELSE nextSession[1].timeRemaining]

\* the days the clock of the countdown covers
MaxCountdownDays == 3

\* instants within a day, in ms: around the second, minute and hour marks
DayOffsets ==
  {0, 1, 999, 1000, 59999, 60000, 3599999, 3600000, MS_PER_DAY - 1}

CountdownInstants ==
  { d * MS_PER_DAY + off : d \in 0..MaxCountdownDays, off \in DayOffsets }

TargetDays == 0..(MaxCountdownDays + 1)

MaxSessions == 2

\* the session lists of an exam: any dates in any order
SessionLists ==
  { [i \in DOMAIN days |-> ExamSession("Session", days[i])] :
      days \in Arrangements({1, 2, 3}, MaxSessions) }

CountdownInit ==
  /\ clock = BaseClock
  /\ tz = [c \in Clients |-> 0 - 330]
  /\ svc = [c \in Clients |-> NewService]
  /\ configured = FALSE
  /\ ManagerLoaded
  /\ BackendEmpty
  /\ backendSessions = <<>>
  /\ metadataData = <<>>
  /\ sessionsData = <<>>
  /\ dateNow = 0
  /\ ExamCachesNull

countdownFrame ==
  <<managerFrame, metadataData, sessionsData, examDataCache, metadataLookup,
    sessionsLookup, examReturn>>

\* time passes
CountdownAdvance ==
  /\ \E t \in CountdownInstants :
       /\ t > dateNow
       /\ \A u \in CountdownInstants : u > dateNow => t <= u
       /\ dateNow' = t
  /\ UNCHANGED <<countdownFrame, countdown>>

SingleTimeCall ==
  /\ \E day \in TargetDays :
       countdown' =
         [fn |-> "calculateSingleTime", at |-> dateNow,
          sessions |-> <<ExamSession("", day)>>, nextSession |-> <<>>,
          timeRemaining |-> CalculateSingleTime(day, dateNow)]
  /\ UNCHANGED <<countdownFrame, dateNow>>

LegacyTimeCall ==
  /\ \E day \in TargetDays :
       countdown' =
         [fn |-> "legacy", at |-> dateNow,
          sessions |-> <<ExamSession("", day)>>, nextSession |-> <<>>,
          timeRemaining |-> LegacyCalculateTimeRemaining(day, dateNow)]
  /\ UNCHANGED <<countdownFrame, dateNow>>

SeoTimeCall ==
  /\ \E day \in TargetDays :
       countdown' =
         [fn |-> "seo", at |-> dateNow,
          sessions |-> <<ExamSession("", day)>>, nextSession |-> <<>>,
          timeRemaining |-> SeoCalculateTimeRemaining(day, dateNow)]
  /\ UNCHANGED <<countdownFrame, dateNow>>

TimeRemainingCall ==
  /\ \E sessions \in SessionLists :
       LET r == CalculateTimeRemaining(sessions, dateNow)
       IN countdown' =
            [fn |-> "calculateTimeRemaining", at |-> dateNow,
             sessions |-> sessions, nextSession |-> r.nextSession,
             timeRemaining |-> r.timeRemaining]
  /\ UNCHANGED <<countdownFrame, dateNow>>

CountdownNext ==
  \/ CountdownAdvance
  \/ SingleTimeCall
  \/ LegacyTimeCall
  \/ SeoTimeCall
  \/ TimeRemainingCall

SpecCountdown == CountdownInit /\ [][CountdownNext]_vars

(***************************************************************************)
(* Claims about the demonstration service (SpecDemo).                      *)
(***************************************************************************)

\* IST is UTC+5:30: the hour and the calendar day of an instant in IST
TrueISTHour(t) == ((t + 5 * 3600 + 30 * 60) % 86400) \div 3600

TrueISTDay(t) == (t + 5 * 3600 + 30 * 60) \div 86400

\* client c's service has generated its sessions at instant t
GeneratedAt(c, t) == svc[c].isRunning /\ svc[c].generatedAt = t

Generated(c) == svc[c].isRunning /\ svc[c].generatedAt # NoTime

\* C1: two clients that generate their demonstration sessions at the same
\* instant hold identical session lists, whatever their local timezones.
C1_SameInstantSameSessions ==
  \A c1 \in Clients, c2 \in Clients :
    (GeneratedAt(c1, clock) /\ GeneratedAt(c2, clock))
      => svc[c1].cachedSessions = svc[c2].cachedSessions

Delivered == presence'.count # presence.count

Ids(sessions) == { sessions[i].id : i \in DOMAIN sessions }

\* the merge keyed by id: every real session, and the demonstration sessions
\* whose id no real session has
MergeById(real, demo) ==
  { ToPresence(real[i]) : i \in DOMAIN real }
    \cup { ToPresence(demo[i]) : i \in { j \in DOMAIN demo : demo[j].id \notin Ids(real) } }

HeartbeatKept ==
  /\ heartbeatTimer # NoTime
  /\ observed.sessionId # 0
  /\ observed.sessionId \notin observed.ended
  /\ ~observed.missed

\* C5: a session whose heartbeat has been applied every 25 seconds since it
\* was started, and which has not been ended, is among the sessions
\* get_active_study_sessions returns, whatever the time
C5_HeartbeatKeepsSessionActive ==
  HeartbeatKept =>
    observed.sessionId \in GetActiveStudySessionsSql(study_sessions, clock)

\* more than two minutes after the last startStudySession call a heartbeat
\* has just been applied and the session is still returned
C5_Witness ==
  /\ HeartbeatKept
  /\ observed.windowEnd # NoTime
  /\ clock >= observed.windowEnd + ACTIVE_INTERVAL_S
  /\ \E k \in DOMAIN calls :
       calls[k].fn = "heartbeat" /\ calls[k].pc = "reply" /\ calls[k].reply = 1
  /\ observed.sessionId \in GetActiveStudySessionsSql(study_sessions, clock)

\* a step in which startStudySession is called (on a configured client)
StartCalled ==
  \/ observed'.windowCalls # observed.windowCalls
  \/ observed'.windowEnd # observed.windowEnd

\* C6: of the startStudySession calls of one 60-second window at most 5
\* reach upsertStudySession; a call after the fifth returns false and leaves
\* no request behind and the heartbeat timer as it was
C6_StartRateLimited ==
  [][ /\ observed'.windowUpserts <= SESSION_START_MAX
      /\ (StartCalled /\ observed.windowCalls >= SESSION_START_MAX
                      /\ clock < observed.windowEnd)
           => /\ observed'.returned = "false"
              /\ observed'.windowUpserts = observed.windowUpserts
              /\ calls' = calls
              /\ study_sessions' = study_sessions
              /\ heartbeatTimer' = heartbeatTimer ]_vars

\* five calls of the window reached upsertStudySession and a sixth was refused
C6_Witness ==
  /\ observed.windowCalls > SESSION_START_MAX
  /\ observed.windowUpserts = SESSION_START_MAX
  /\ observed.returned = "false"
  /\ clock < observed.windowEnd

InIndia(lat, lng) ==
  /\ lat >= INDIA_BOUNDS.minLat /\ lat <= INDIA_BOUNDS.maxLat
  /\ lng >= INDIA_BOUNDS.minLng /\ lng <= INDIA_BOUNDS.maxLng

\* C9: the latitude and longitude startStudySession and updateStudyExam hand
\* to upsertStudySession lie within the bounds of India
C9_UpsertCoordinatesInIndia ==
  \A k \in DOMAIN calls :
    (/\ calls[k].fn \in {"start", "update"}
     /\ calls[k].pc \in {"rpc", "reply"}
     /\ calls[k].latitude # NoCoord)
      => InIndia(calls[k].latitude, calls[k].longitude)

(***************************************************************************)
(* Claims about initialization and fetching (SpecInit, SpecFetch)          *)
(***************************************************************************)

\* a step in which a call of initializeSessionManager returns
InitReturns ==
  \E i \in InitCallIds :
    initCalls[i].pc # "returned" /\ initCalls'[i].pc = "returned"

\* C7: when initializeSessionManager returns, on any of its paths, the
\* demonstration service is running and the manager is subscribed to it, and
\* the service never has a second subscription
C7_InitLeavesDemonstrationSubscribed ==
  [][ /\ InitReturns =>
           /\ svc'[Me].isRunning
           /\ unsubscribeDemonstration' # NoHandle
           /\ unsubscribeDemonstration' \in svc'[Me].sessionListeners
      /\ Cardinality(svc'[Me].sessionListeners) <= 1 ]_vars

\* a step in which a call of fetchActiveSessions settles
FetchSettles == Len(fetchCalls') < Len(fetchCalls)

C10_CacheBounded ==
  [][ /\ Len(avatarUrlCache') <= MAX_CACHE_SIZE
      /\ (/\ Len(avatarUrlCache) = MAX_CACHE_SIZE
          /\ avatarUrlCache' # avatarUrlCache
          /\ avatarUrlCache' # <<>>)
           => /\ Len(avatarUrlCache') = MAX_CACHE_SIZE - CLEANUP_BATCH + 1
              /\ SubSeq(avatarUrlCache', 1, MAX_CACHE_SIZE - CLEANUP_BATCH)
                   = SubSeq(avatarUrlCache, CLEANUP_BATCH + 1, MAX_CACHE_SIZE)
              /\ ~CacheHas(avatarUrlCache,
                           avatarUrlCache'[Len(avatarUrlCache')]) ]_vars

\* the 501st insertion has removed seeds 1..100 and kept seeds 101..501
C10_Witness ==
  /\ Len(avatarUrlCache) = MAX_CACHE_SIZE - CLEANUP_BATCH + 1
  /\ avatarUrlCache[1]
       = CacheKey(AvatarSeed(CLEANUP_BATCH + 1), DEFAULT_STYLE, DEFAULT_SIZE)
  /\ avatarUrlCache[Len(avatarUrlCache)]
       = CacheKey(AvatarSeed(MAX_CACHE_SIZE + 1), DEFAULT_STYLE, DEFAULT_SIZE)

(***************************************************************************)
(* Claims about the exam data module (SpecExam)                            *)
(***************************************************************************)

MetadataIds == { metadataData[i][1] : i \in DOMAIN metadataData }

\* the sessions the sessions file gives for id, an empty list when it has none
FileSessions(id) ==
  IF \E i \in DOMAIN sessionsData : sessionsData[i].id = id
  THEN sessionsData[CHOOSE i \in DOMAIN sessionsData :
                      sessionsData[i].id = id].sessions
  ELSE <<>>

\* the metadata of id in the metadata file, with the id and its sessions
FileExam(id) ==
  LET meta == metadataData[CHOOSE i \in DOMAIN metadataData :
                             metadataData[i][1] = id][2]
  IN [id |-> id, name |-> meta.name, category |-> meta.category,
      slug |-> meta.slug, relatedExams |-> meta.relatedExams,
      sessions |-> FileSessions(id)]

\* C11: whatever getExamData, getExamById and clearCache calls came before,
\* getExamData returns exactly one entry per id of the metadata file, with the
\* sessions the sessions file gives for that id (none: an empty list), and
\* getExamById(id) returns that same entry, or undefined for an id the
\* metadata file does not have
C11_ExamDataFromFiles ==
  /\ examReturn.fn = "getExamData" =>
       /\ Len(examReturn.value) = Cardinality(MetadataIds)
       /\ { examReturn.value[i] : i \in DOMAIN examReturn.value }
            = { FileExam(id) : id \in MetadataIds }
  /\ examReturn.fn = "getExamById" =>
       examReturn.value =
         IF examReturn.arg \in MetadataIds
         THEN <<FileExam(examReturn.arg)>> ELSE <<>>

\* getExamById, with the lookups built and no list cached, found an exam that
\* has metadata but no entry in the sessions file
C11_Witness ==
  /\ examReturn.fn = "getExamById"
  /\ examReturn.value # <<>>
  /\ examReturn.value[1].sessions = <<>>
  /\ examReturn.arg = "jee-main-2026"
  /\ ~examDataCache.built
  /\ metadataLookup.built

\* the exams of the files in the order of the metadata file
FileExams == [i \in DOMAIN metadataData |-> FileExam(metadataData[i][1])]

\* the exams of the files with the slug `slug`, in file order
WithSlug(slug) == SelectSeq(FileExams, LAMBDA e : e.slug = slug)

\* the exams that exam.relatedExams names, in the order it lists them; a
\* slug that no exam has is skipped
RECURSIVE NamedFrom(_, _)
NamedFrom(exam, i) ==
  IF i > Len(exam.relatedExams) THEN <<>>
  ELSE (IF WithSlug(exam.relatedExams[i]) = <<>> THEN <<>>
        ELSE <<WithSlug(exam.relatedExams[i])[1]>>) \o NamedFrom(exam, i + 1)

\* e may fill up the related exams of exam: same category (compared without
\* regard to letter case, as getExamsByCategory compares), not the exam
\* itself and not named in its relatedExams
MayFill(e, exam) ==
  /\ \E i \in DOMAIN FileExams : FileExams[i] = e
  /\ ToLowerCase(e.category) = ToLowerCase(exam.category)
  /\ e.slug # exam.slug
  /\ \A i \in DOMAIN exam.relatedExams : exam.relatedExams[i] # e.slug

\* C19: getRelatedExams(slug, limit) with limit >= 0 returns at most limit
\* exams: first the existing exams named in relatedExams, in the order
\* listed, and after them, only when these are fewer than limit, exams of
\* the same category that are neither the exam itself nor named in
\* relatedExams; for a slug no exam has it returns []
C19_RelatedExams ==
  examReturn.fn = "getRelatedExams" =>
    LET value == examReturn.value
        limit == examReturn.limit
    IN IF WithSlug(examReturn.arg) = <<>> THEN value = <<>>
       ELSE LET exam == WithSlug(examReturn.arg)[1]
                named == NamedFrom(exam, 1)
                n == IF Len(named) < limit THEN Len(named) ELSE limit
            IN /\ Len(value) <= limit
               /\ Len(value) >= n
               /\ SubSeq(value, 1, n) = SubSeq(named, 1, n)
               /\ \A i \in (n + 1)..Len(value) : MayFill(value[i], exam)

\* getRelatedExams('jee-main', 3) returned NEET twice, as relatedExams names
\* it, skipped the slug no exam has, and filled up with GATE, whose category
\* is written "engineering"
C19_Witness ==
  /\ examReturn.fn = "getRelatedExams"
  /\ examReturn.arg = "jee-main"
  /\ examReturn.limit = 3
  /\ Len(examReturn.value) = 3
  /\ examReturn.value[1].slug = "neet"
  /\ examReturn.value[2].slug = "neet"
  /\ examReturn.value[3].slug = "gate"

(***************************************************************************)
(* Claims about the countdown (SpecCountdown)                              *)
(***************************************************************************)

\* target - now of a calculation for a single date
Distance == DateGetTime(countdown.sessions[1].date) - countdown.at

SingleDate == countdown.fn \in {"calculateSingleTime", "legacy", "seo"}

\* C13: each of the three countdown calculations returns, for a distance
\* target - now >= 0 in ms, expired = false with hours below 24, minutes and
\* seconds below 60 and days, hours, minutes and seconds adding up to the
\* whole seconds of the distance; for a negative distance expired = true and
\* four zeros
C13_CountdownFields ==
  SingleDate =>
    LET t == countdown.timeRemaining
    IN IF Distance >= 0
       THEN /\ t.expired = FALSE
            /\ t.days >= 0
            /\ t.hours >= 0 /\ t.hours < 24
            /\ t.minutes >= 0 /\ t.minutes < 60
            /\ t.seconds >= 0 /\ t.seconds < 60
            /\ t.days * 86400 + t.hours * 3600 + t.minutes * 60 + t.seconds
                 = Distance \div 1000
       ELSE t = [expired |-> TRUE, days |-> 0, hours |-> 0, minutes |-> 0,
                 seconds |-> 0]

\* three days less 59.999 seconds are left
C13_Witness ==
  /\ SingleDate
  /\ Distance = 3 * MS_PER_DAY - 59999
  /\ countdown.timeRemaining =
       [expired |-> FALSE, days |-> 2, hours |-> 23, minutes |-> 59,
        seconds |-> 0]

\* the sessions of the exam that have not expired at the time of the call
UpcomingSessions ==
  { i \in DOMAIN countdown.sessions :
      DateGetTime(countdown.sessions[i].date) >= countdown.at }

\* C12: calculateTimeRemaining(exam) returns as nextSession the session with
\* the earliest date among those not yet expired, with the time remaining to
\* it; it returns null and expired = true exactly when every session's date
\* is in the past
C12_NextSessionIsEarliest ==
  countdown.fn = "calculateTimeRemaining" =>
    IF UpcomingSessions = {}
    THEN countdown.nextSession = <<>> /\ countdown.timeRemaining.expired
    ELSE /\ countdown.nextSession # <<>>
         /\ ~countdown.timeRemaining.expired
         /\ \A i \in UpcomingSessions :
              countdown.nextSession[1].date <= countdown.sessions[i].date
         /\ countdown.timeRemaining =
              CalculateSingleTime(countdown.nextSession[1].date, countdown.at)

(***************************************************************************)
(* Claims about overlapping calls (SpecRace)                               *)
(***************************************************************************)

\* C14: whatever way upsert_study_session, heartbeat_session,
\* end_study_session and cleanup_stale_sessions calls interleave, two
\* upserts of one user at once included, a user has at most one row of
\* study_sessions with is_active = TRUE
C14_OneActiveRowPerUser ==
  Cardinality(ActiveRows(study_sessions, MyUser)) <= 1

\* C16: once endStudySession has resolved and no startStudySession call was
\* issued after it, no heartbeat timer runs and the connection status is
\* 'disconnected', also when a startStudySession call was in flight when
\* endStudySession was called
C16_EndedStaysEnded ==
  observed.endResolved =>
    heartbeatTimer = NoTime /\ currentStatus = "disconnected"

(***************************************************************************)
(* Claims about the order of fetches and about cleanup (SpecPresence)      *)
(***************************************************************************)

\* no getActiveStudySessions request of the manager is in flight
NoFetchInFlight ==
  /\ refetches = <<>>
  /\ \A i \in InitCallIds : initCalls[i].pc # "fetch"

\* the requests of the manager that complete in this step
Completing ==
  { initCalls[i].fetch : i \in { j \in InitCallIds :
        initCalls[j].pc = "fetch" /\ initCalls'[j].pc = "returned" } }
  \cup { refetches[k] : k \in { n \in DOMAIN refetches :
        Len(refetches') < Len(refetches) /\ Len(refetches) = 1 } }

\* C15: with several fetches in flight at once (the initial load of
\* initializeSessionManager and the refetches of realtime events), once all
\* of them have completed the list last delivered is the result of the
\* fetch that was issued last: a fetch that completes last, after the fetch
\* issued last has overtaken it, leaves the list which that fetch returned
C15_LastIssuedFetchWins ==
  [][ \A done \in Completing :
        (NoFetchInFlight' /\ done.order = "overtaken") =>
          lastRealSessions' = done.newerRows ]_vars

\* cleanup() has returned, initializeSessionManager has not been called
\* since, and no earlier call of it is pending or has subscribed again
CleanedUp ==
  /\ observed.cleanedUp
  /\ \A i \in InitCallIds : initCalls[i].pc \in {"idle", "returned"}
  /\ unsubscribeRealtime = NoHandle
  /\ unsubscribeDemonstration = NoHandle

\* C17: after cleanup() has returned, the presence listeners get no further
\* notification until initializeSessionManager is called again, also when a
\* refetch was in flight or a demonstration update was pending when cleanup()
\* was called
C17_QuietAfterCleanup ==
  [][ (CleanedUp /\ observed'.cleanedUp) => presence' = presence ]_vars

(***************************************************************************)
(* Claims about the periodic demonstration update (SpecUpdate)             *)
(***************************************************************************)

\* a step in which the interval callback of the running service has
\* generated the list of a new instant
TimerUpdate ==
  /\ svc[Me].isRunning /\ svc'[Me].isRunning
  /\ svc'[Me].generatedAt # svc[Me].generatedAt

\* the manager's handler and the presence listener were called once with
\* the list `sessions`
Notified(sessions) ==
  /\ unsubscribeDemonstration \in svc[Me].sessionListeners
  /\ lastDemonstrationSessions' = sessions
  /\ sessionListeners # {} =>
       presence' = [count |-> (presence.count + 1) % DeliveryModulus,
                    last |-> AllPresences(lastRealSessions, sessions)]

\* C18: a periodic update notifies the subscribers exactly when the newly
\* generated list differs from the cached one, and the cache holds the new
\* list when they are called; an update that generates an equal list
\* changes nothing and calls no subscriber
C18_UpdateNotifiesOnChange ==
  [][ TimerUpdate =>
        IF GeneratedSessions[clock][tz[Me]] # svc[Me].cachedSessions
        THEN /\ svc'[Me].cachedSessions = GeneratedSessions[clock][tz[Me]]
             /\ Notified(svc'[Me].cachedSessions)
        ELSE /\ svc'[Me].cachedSessions = svc[Me].cachedSessions
             /\ svc'[Me].sessionListeners = svc[Me].sessionListeners
             /\ mergeVars' = mergeVars ]_vars

\* the presence listener holds the list of the running service, generated
\* on the second day, and has been given avatars of the first day: the
\* service was started before midnight and an update has replaced its list
C18_Witness ==
  /\ svc[Me].isRunning
  /\ svc[Me].cachedSessions # <<>>
  /\ svc[Me].cachedSessions[1].id[2] # GetDailySeed(BaseClock, tz[Me])
  /\ lastDemonstrationSessions = svc[Me].cachedSessions
  /\ sessionListeners # {}
  /\ presence.last = AllPresences(lastRealSessions, svc[Me].cachedSessions)
  /\ \E i \in DOMAIN avatarUrlCache :
       avatarUrlCache[i][1][2] = GetDailySeed(BaseClock, tz[Me])

====
